---- MODULE Spec2Model ----
(***************************************************************************)
(* Model of the PDF -> description -> image console pipeline:              *)
(*   api/utils/downloader.py        download_pdf_to_temp                   *)
(*   api/agents/watcher_agent.py    WatcherAgent.get_description_from_pdf  *)
(*   api/agents/lyricist_agent.py   LyricistAgent.generate_image_from_...  *)
(*   api/management/commands/youtube_lyrics.py   Command.handle            *)
(*                                                                         *)
(* Python strings that the code inspects (strip, slicing, "in") are        *)
(* sequences of one-character strings.  Optional[...] fields are sequences *)
(* of length 0 (None) or 1 (a value).                                      *)
(***************************************************************************)
EXTENDS Integers, Sequences, FiniteSets, TLC

\* ------------------------------------------------------------------------
\* Python built-ins used by the code
\* ------------------------------------------------------------------------

None == <<>>
Some(v) == <<v>>
IsSet(o) == Len(o) = 1

Min(a, b) == IF a < b THEN a ELSE b

\* str.strip() removes these (the model's alphabet has no \f or \v)
Whitespace == {" ", "\t", "\n", "\r"}

RECURSIVE LStrip(_)
LStrip(s) == IF s # <<>> /\ Head(s) \in Whitespace THEN LStrip(Tail(s)) ELSE s

RECURSIVE RStrip(_)
RStrip(s) == IF s # <<>> /\ s[Len(s)] \in Whitespace THEN RStrip(SubSeq(s, 1, Len(s) - 1)) ELSE s

\* s.strip()
Strip(s) == RStrip(LStrip(s))

\* s[:n]
Take(s, n) == SubSeq(s, 1, Min(n, Len(s)))

\* sub in s
Contains(s, sub) == \E i \in 1..(Len(s) - Len(sub) + 1) : SubSeq(s, i, i + Len(sub) - 1) = sub

\* sep.join(parts)
RECURSIVE Join(_, _)
Join(parts, sep) ==
    IF parts = <<>> THEN <<>>
    ELSE IF Len(parts) = 1 THEN parts[1]
    ELSE parts[1] \o sep \o Join(Tail(parts), sep)

\* the indices of s, in order, that satisfy Test
Indices(s, Test(_)) == SelectSeq([i \in 1..Len(s) |-> i], Test)

\* s.split(sep) for a one-character separator
SplitOn(s, sep) ==
    LET IsSep(i) == s[i] = sep
        seps == Indices(s, IsSep)
    IN  [k \in 1..(Len(seps) + 1) |->
            SubSeq(s, IF k = 1 THEN 1 ELSE seps[k - 1] + 1,
                      IF k = Len(seps) + 1 THEN Len(s) ELSE seps[k] - 1)]

UpperCase == <<"A","B","C","D","E","F","G","H","I","J","K","L","M","N","O","P","Q","R","S","T","U","V","W","X","Y","Z">>
LowerCase == <<"a","b","c","d","e","f","g","h","i","j","k","l","m","n","o","p","q","r","s","t","u","v","w","x","y","z">>
Digits == {"0","1","2","3","4","5","6","7","8","9"}
IsUpperChar(c) == \E i \in 1..26 : UpperCase[i] = c
IsLowerChar(c) == \E i \in 1..26 : LowerCase[i] = c
IsAlpha(c) == IsUpperChar(c) \/ IsLowerChar(c)

\* c.lower()
LowerChar(c) == IF IsUpperChar(c) THEN LowerCase[CHOOSE i \in 1..26 : UpperCase[i] = c] ELSE c
Lower(s) == [i \in 1..Len(s) |-> LowerChar(s[i])]

\* s.isupper(): some cased character, and no lower-case one
IsUpper(s) == (\E i \in 1..Len(s) : IsUpperChar(s[i])) /\ (\A i \in 1..Len(s) : ~IsLowerChar(s[i]))

\* len(s.split()): the number of maximal runs of non-whitespace
WordCount(s) ==
    Cardinality({i \in 1..Len(s) : s[i] \notin Whitespace /\ (i = 1 \/ s[i - 1] \in Whitespace)})

AllWhitespace(s) == \A i \in 1..Len(s) : s[i] \in Whitespace

\* ------------------------------------------------------------------------
\* Inputs and environment the model ranges over
\* ------------------------------------------------------------------------

\* values of REPLICATE_API_TOKEN / OPENAI_API_KEY; os.getenv(..., "") gives "" when unset
Credentials == {<<>>, <<" ">>, <<"s","k">>}

\* description arguments of a direct call of generate_image_from_description
Descriptions == {<<>>, <<" ","\n">>, <<" ","a"," ","c","a","t"," ">>, <<"R","e","n","d","e","r","e","d"," ","l","o","c","a","l","l","y">>}

\* optional third-party modules whose import may have failed
Modules == {"PIL", "PyPDF2", "pdfplumber", "fitz", "pytesseract"}

\* watcher_agent.py imports pytesseract and PIL in one try block
Installations == {m \in SUBSET Modules : "pytesseract" \in m => "PIL" \in m}

IMAGE_OUTPUT_FILE == <<"g","e","n","e","r","a","t","e","d","_","i","m","a","g","e",".","p","n","g">>

\* ------------------------------------------------------------------------
\* File system
\* ------------------------------------------------------------------------

Absent == [exists |-> FALSE, isfile |-> FALSE, data |-> <<>>]
File(bytes) == [exists |-> TRUE, isfile |-> TRUE, data |-> bytes]

\* os.path.exists / os.path.isfile / os.path.getsize
path_exists(f, p) == p \in DOMAIN f /\ f[p].exists
path_isfile(f, p) == p \in DOMAIN f /\ f[p].isfile
path_getsize(f, p) == Len(f[p].data)

\* open(p, "wb").write(bytes)
WriteFile(f, p, bytes) == [f EXCEPT ![p] = File(bytes)]

\* os.remove(p)
RemoveFile(f, p) == [f EXCEPT ![p] = Absent]

\* an entry of calls: the provider invoked and how the invocation ended:
\* "raised" (an exception), "empty" (returned, but nothing usable), "ok"
Attempt(provider, outcome) == [provider |-> provider, outcome |-> outcome]

VARIABLES
    entry,          \* the public operation that was invoked
    pc,             \* position inside it
    environ,        \* os.environ: REPLICATE_API_TOKEN, OPENAI_API_KEY
    installed,      \* optional modules that imported successfully
    fs,             \* files by path
    console,        \* lines printed so far
    calls,          \* providers/backends invoked by the running agent call, in order
    description,    \* generate_image_from_description: argument, stripped at line 74
    api_errors,     \*   api_errors
    polls,          \*   _generate_with_replicate: polls answered "not finished" so far
    attempted,      \*   attempted
    ires,           \*   the ImageResult returned (None before)
    pdf_path,       \* get_description_from_pdf: argument
    texts,          \*   texts
    errors,         \*   errors
    best_text,      \*   best_text
    used_backend,   \*   used_backend
    wres,           \*   the WatcherResult returned (None before)
    url,            \* download_pdf_to_temp: argument, stripped at line 38
    dres,           \*   the DownloadResult returned (None before)
    pdf_url,        \* Command.handle: pdf_url
    temp_path,      \*   temp_path
    termination,    \*   how handle ended: "return", "SystemExit(1)", "exception"
    stages,         \*   the stages handle has started, in order
    parts,          \* _find_description_block: the pieces its argument is made of
    picker_text,    \*   argument
    picked,         \*   the description returned (None before)
    raw_text,       \* _normalize_whitespace: the text a backend read
    passes          \*   what each normalization so far returned, in order

imageVars == <<description, api_errors, attempted, ires, polls>>
watcherVars == <<pdf_path, texts, errors, best_text, used_backend, wres>>
downloadVars == <<url, dres>>
handleVars == <<pdf_url, temp_path, termination, stages>>
pickerVars == <<parts, picker_text, picked>>
normalizeVars == <<raw_text, passes>>

vars == <<entry, pc, environ, installed, fs, console, calls, imageVars, watcherVars, downloadVars, handleVars, pickerVars, normalizeVars>>

\* ------------------------------------------------------------------------
\* LyricistAgent
\* ------------------------------------------------------------------------

ImageResult(success, image_path, error, details) ==
    [success |-> success, image_path |-> image_path, error |-> error, details |-> details]

\* line 195: for _ in range(60)
MAX_POLLS == 60

\* faulty variant: the loop gives up before the first poll
PollAgain_Never(n) == FALSE

\* line 195: the loop goes on while fewer than MAX_POLLS polls were made
PollAgain(n) == n < MAX_POLLS

\* line 229: the loop ended and no poll showed a final status
ReplicateTimedOut == [raises |-> TRUE, e |-> <<"R","e","p","l","i","c","a","t","e"," ","p","r","e","d","i","c","t","i","o","n"," ","t","i","m","e","d"," ","o","u","t">>, bytes |-> <<>>]

\* lines 179-192: the prediction could not be created
CreateFailures ==
    { [raises |-> TRUE, e |-> <<"R","e","p","l","i","c","a","t","e"," ","A","P","I"," ","c","r","e","a","t","e"," ","p","r","e","d","i","c","t","i","o","n"," ","f","a","i","l","e","d",":"," ","4","0","1">>, bytes |-> <<>>] }

\* lines 207-226: a poll showed a final status: "failed", which raises, or
\* "succeeded", and the bytes downloaded (possibly none) are written
PollEndings ==
    { [raises |-> TRUE, e |-> <<"R","e","p","l","i","c","a","t","e"," ","p","r","e","d","i","c","t","i","o","n"," ","s","t","a","t","u","s",":"," ","f","a","i","l","e","d"," ","d","e","t","a","i","l","s","=","N","S","F","W">>, bytes |-> <<>>],
      [raises |-> FALSE, e |-> <<>>, bytes |-> <<>>],
      [raises |-> FALSE, e |-> <<>>, bytes |-> <<"replicate-image">>] }

\* what one run of _generate_with_replicate can do: raise before writing, or
\* write the downloaded bytes (possibly none) to output_path and return
ReplicateOutcomes == {ReplicateTimedOut} \cup CreateFailures \cup PollEndings

\* what one run of _generate_with_openai can do; detail is its return value
OpenAIOutcomes ==
    { [raises |-> TRUE, e |-> <<"O","p","e","n","A","I"," ","g","e","n","e","r","a","t","i","o","n"," ","f","a","i","l","e","d"," ","(","n","e","w"," ","S","D","K",")",":"," ","q","u","o","t","a"," ","|"," ","l","e","g","a","c","y"," ","a","t","t","e","m","p","t",":"," ","q","u","o","t","a">>, bytes |-> <<>>, detail |-> <<>>],
      [raises |-> FALSE, e |-> <<>>, bytes |-> <<>>, detail |-> <<"b","6","4","_","j","s","o","n",";"," ","m","o","d","e","l","=","g","p","t","-","i","m","a","g","e","-","1",";"," ","s","i","z","e","=","1","0","2","4","x","1","0","2","4">>],
      [raises |-> FALSE, e |-> <<>>, bytes |-> <<"openai-image">>, detail |-> <<"b","6","4","_","j","s","o","n",";"," ","m","o","d","e","l","=","g","p","t","-","i","m","a","g","e","-","1",";"," ","s","i","z","e","=","1","0","2","4","x","1","0","2","4">>],
      [raises |-> FALSE, e |-> <<>>, bytes |-> <<"openai-image">>, detail |-> <<"u","r","l",";"," ","m","o","d","e","l","=","g","p","t","-","i","m","a","g","e","-","1",";"," ","s","i","z","e","=","1","0","2","4","x","1","0","2","4">>] }

\* what img.save(output_path, format="PNG") can do once Pillow is present
RenderOutcomes ==
    { [raises |-> TRUE, e |-> <<"[","E","r","r","n","o"," ","1","3","]"," ","P","e","r","m","i","s","s","i","o","n"," ","d","e","n","i","e","d">>, bytes |-> <<>>],
      [raises |-> FALSE, e |-> <<>>, bytes |-> <<"png-header", "png-pixels">>] }

\* how an invocation with outcome o ended, for calls
Produced(o) == IF o.raises THEN "raised" ELSE IF o.bytes = <<>> THEN "empty" ELSE "ok"

generate_with_replicate(f, output_path, o) ==
    IF o.raises THEN f ELSE WriteFile(f, output_path, o.bytes)

generate_with_openai(f, output_path, o) ==
    IF o.raises THEN f ELSE WriteFile(f, output_path, o.bytes)

\* faulty variant: the image is drawn but never saved
render_placeholder_NoSave(f, output_path, o) == f

render_placeholder(f, output_path, o) ==
    IF o.raises THEN f ELSE WriteFile(f, output_path, o.bytes)

\* faulty variants of the acceptance test: one that never accepts, one that
\* leaves out the size test
ImageAccepted_Never(f, output_path) == path_exists(f, output_path) /\ path_getsize(f, output_path) < 0

ImageAccepted_ExistsOnly(f, output_path) == path_exists(f, output_path)

\* lines 95 and 115: the acceptance test of a remote provider's output
ImageAccepted(f, output_path) ==
    path_exists(f, output_path) /\ path_getsize(f, output_path) > 0

\* faulty variant: the description is not stripped
DescriptionIsEmpty_NoStrip(d) == d = <<>>

\* line 70: not description or not description.strip()
DescriptionIsEmpty(d) == d = <<>> \/ Strip(d) = <<>>

\* faulty variant: the token is not stripped
CredentialPresent_NoStrip(token) == token # <<>>

\* lines 87 and 107: (token or "").strip()
CredentialPresent(token) == Strip(token) # <<>>

\* lines 128, 140, 145
AttemptDetails(att, errs) ==
    <<"A","t","t","e","m","p","t","e","d",":"," ">> \o (IF att # <<>> THEN Join(att, <<","," ">>) ELSE <<"n","o","n","e">>) \o <<" ","|"," ">>
        \o (IF errs # <<>> THEN Join(errs, <<" ","|"," ">>) ELSE <<"N","o"," ","A","P","I"," ","k","e","y","s"," ","c","o","n","f","i","g","u","r","e","d",".">>)

ImageReturn == IF entry = "handle" THEN "h_after_image" ELSE "done"

\* lines 69-84
GenerateImage_Validate ==
    /\ pc = "img_start"
    /\ calls' = <<>>
    /\ IF DescriptionIsEmpty(description)
       THEN /\ ires' = Some(ImageResult(FALSE, None, Some(<<"D","e","s","c","r","i","p","t","i","o","n"," ","i","s"," ","e","m","p","t","y",".">>),
                                        Some(<<"P","r","o","v","i","d","e"," ","a"," ","n","o","n","-","e","m","p","t","y"," ","d","e","s","c","r","i","p","t","i","o","n",".">>)))
            /\ console' = console \o << <<"[","L","y","r","i","c","i","s","t","A","g","e","n","t","]"," ","g","e","n","e","r","a","t","e","_","i","m","a","g","e","_","f","r","o","m","_","d","e","s","c","r","i","p","t","i","o","n"," ","c","a","l","l","e","d">>,
                                        <<"[","L","y","r","i","c","i","s","t","A","g","e","n","t","]"," ","P","r","o","v","i","d","e","d"," ","d","e","s","c","r","i","p","t","i","o","n"," ","i","s"," ","e","m","p","t","y"," ","-"," ","a","b","o","r","t","i","n","g",".">> >>
            /\ pc' = ImageReturn
            /\ UNCHANGED <<description, api_errors, attempted>>
       ELSE /\ description' = Strip(description)
            /\ console' = console \o
                 << <<"[","L","y","r","i","c","i","s","t","A","g","e","n","t","]"," ","g","e","n","e","r","a","t","e","_","i","m","a","g","e","_","f","r","o","m","_","d","e","s","c","r","i","p","t","i","o","n"," ","c","a","l","l","e","d">>,
                    <<"[","L","y","r","i","c","i","s","t","A","g","e","n","t","]"," ","E","n","v"," ","c","h","e","c","k",":"," ","R","E","P","L","I","C","A","T","E","_","A","P","I","_","T","O","K","E","N"," ","s","e","t","?"," ">>
                        \o (IF environ.REPLICATE_API_TOKEN # <<>> THEN <<"y","e","s">> ELSE <<"n","o">>),
                    <<"[","L","y","r","i","c","i","s","t","A","g","e","n","t","]"," ","E","n","v"," ","c","h","e","c","k",":"," ","O","P","E","N","A","I","_","A","P","I","_","K","E","Y"," ","v","a","l","u","e",":"," ">>
                        \o environ.OPENAI_API_KEY
                        \o <<" ","(","n","o","t","e",":"," ","p","r","i","n","t","e","d"," ","f","o","r"," ","d","i","a","g","n","o","s","t","i","c","s"," ","a","s"," ","r","e","q","u","e","s","t","e","d",")">> >>
            /\ api_errors' = <<>>
            /\ attempted' = <<>>
            /\ pc' = "img_replicate"
            /\ UNCHANGED ires
    /\ UNCHANGED <<entry, environ, installed, fs>>
    /\ UNCHANGED watcherVars /\ UNCHANGED downloadVars /\ UNCHANGED handleVars
    /\ UNCHANGED polls
    /\ UNCHANGED pickerVars /\ UNCHANGED normalizeVars

\* lines 93-104: _generate_with_replicate has ended with outcome o; att and
\* out are attempted and the lines printed when it ended
ReplicateEnds(o, att, out) ==
    LET f1 == generate_with_replicate(fs, IMAGE_OUTPUT_FILE, o)
        e == IF o.raises THEN o.e ELSE <<"R","e","p","l","i","c","a","t","e"," ","r","e","t","u","r","n","e","d"," ","n","o"," ","i","m","a","g","e"," ","b","y","t","e","s"," ","o","r"," ","f","i","l","e"," ","i","s"," ","e","m","p","t","y",".">>
    IN  /\ calls' = Append(calls, Attempt("Replicate", Produced(o)))
        /\ fs' = f1
        /\ polls' = 0
        /\ IF ~o.raises /\ ImageAccepted(f1, IMAGE_OUTPUT_FILE)
           THEN /\ ires' = Some(ImageResult(TRUE, Some(IMAGE_OUTPUT_FILE), None,
                        Some(<<"G","e","n","e","r","a","t","e","d"," ","v","i","a"," ","R","e","p","l","i","c","a","t","e"," ","|"," ","p","r","o","m","p","t"," ","s","n","i","p","p","e","t",":"," ">> \o Take(description, 80))))
                /\ console' = Append(out, <<"[","L","y","r","i","c","i","s","t","A","g","e","n","t","]"," ","R","e","p","l","i","c","a","t","e"," ","c","a","l","l"," ","c","o","m","p","l","e","t","e","d">>)
                /\ pc' = ImageReturn
                /\ attempted' = <<>>
                /\ api_errors' = <<>>
           ELSE /\ attempted' = att
                /\ api_errors' = Append(api_errors, <<"R","e","p","l","i","c","a","t","e"," ","f","a","i","l","e","d",":"," ">> \o e)
                /\ console' = out
                      \o (IF o.raises THEN <<>> ELSE << <<"[","L","y","r","i","c","i","s","t","A","g","e","n","t","]"," ","R","e","p","l","i","c","a","t","e"," ","c","a","l","l"," ","c","o","m","p","l","e","t","e","d">> >>)
                      \o << <<"[","L","y","r","i","c","i","s","t","A","g","e","n","t","]"," ","R","e","p","l","i","c","a","t","e"," ","e","r","r","o","r",":"," ">> \o e >>
                /\ pc' = "img_openai"
                /\ UNCHANGED ires

\* lines 86-92 and 161-192: the prediction is created, or the call raises
GenerateImage_Replicate ==
    /\ pc = "img_replicate"
    /\ IF CredentialPresent(environ.REPLICATE_API_TOKEN)
       THEN LET att == Append(attempted, <<"R","e","p","l","i","c","a","t","e">>)
                out == Append(console, <<"[","L","y","r","i","c","i","s","t","A","g","e","n","t","]"," ","A","t","t","e","m","p","t","i","n","g"," ","R","e","p","l","i","c","a","t","e"," ","i","m","a","g","e"," ","g","e","n","e","r","a","t","i","o","n",".",".",".">>)
            IN  \/ \E o \in CreateFailures : ReplicateEnds(o, att, out)
                \/ /\ attempted' = att
                   /\ console' = out
                   /\ polls' = 0
                   /\ pc' = "img_poll"
                   /\ UNCHANGED <<calls, fs, api_errors, ires>>
       ELSE /\ console' = Append(console, <<"[","L","y","r","i","c","i","s","t","A","g","e","n","t","]"," ","S","k","i","p","p","i","n","g"," ","R","e","p","l","i","c","a","t","e",":"," ","R","E","P","L","I","C","A","T","E","_","A","P","I","_","T","O","K","E","N"," ","n","o","t"," ","s","e","t",".">>)
            /\ pc' = "img_openai"
            /\ UNCHANGED <<attempted, calls, fs, api_errors, ires, polls>>
    /\ UNCHANGED <<entry, environ, installed, description>>
    /\ UNCHANGED watcherVars /\ UNCHANGED downloadVars /\ UNCHANGED handleVars
    /\ UNCHANGED pickerVars /\ UNCHANGED normalizeVars

\* lines 195-229: one turn of the polling loop: the prediction is not finished
\* and the loop sleeps, or it is finished, or the loop is over
GenerateImage_ReplicatePoll ==
    /\ pc = "img_poll"
    /\ IF PollAgain(polls)
       THEN \/ /\ polls' = polls + 1
               /\ UNCHANGED <<pc, calls, fs, console, api_errors, attempted, ires>>
            \/ \E o \in PollEndings : ReplicateEnds(o, attempted, console)
       ELSE ReplicateEnds(ReplicateTimedOut, attempted, console)
    /\ UNCHANGED <<entry, environ, installed, description>>
    /\ UNCHANGED watcherVars /\ UNCHANGED downloadVars /\ UNCHANGED handleVars
    /\ UNCHANGED pickerVars /\ UNCHANGED normalizeVars

\* lines 106-124
GenerateImage_OpenAI ==
    /\ pc = "img_openai"
    /\ IF CredentialPresent(environ.OPENAI_API_KEY)
       THEN \E o \in OpenAIOutcomes :
            LET f1 == generate_with_openai(fs, IMAGE_OUTPUT_FILE, o)
                e == IF o.raises THEN o.e ELSE <<"O","p","e","n","A","I"," ","r","e","t","u","r","n","e","d"," ","n","o"," ","i","m","a","g","e"," ","b","y","t","e","s"," ","o","r"," ","f","i","l","e"," ","i","s"," ","e","m","p","t","y",".">>
            IN  /\ calls' = Append(calls, Attempt("OpenAI", Produced(o)))
                /\ fs' = f1
                /\ IF ~o.raises /\ ImageAccepted(f1, IMAGE_OUTPUT_FILE)
                   THEN /\ ires' = Some(ImageResult(TRUE, Some(IMAGE_OUTPUT_FILE), None,
                                Some(<<"G","e","n","e","r","a","t","e","d"," ","v","i","a"," ","O","p","e","n","A","I"," ","(">> \o o.detail \o <<")"," ","|"," ","p","r","o","m","p","t"," ","s","n","i","p","p","e","t",":"," ">>
                                     \o Take(description, 80))))
                        /\ console' = console \o << <<"[","L","y","r","i","c","i","s","t","A","g","e","n","t","]"," ","A","t","t","e","m","p","t","i","n","g"," ","O","p","e","n","A","I"," ","I","m","a","g","e","s"," ","g","e","n","e","r","a","t","i","o","n",".",".",".">>,
                                                    <<"[","L","y","r","i","c","i","s","t","A","g","e","n","t","]"," ","O","p","e","n","A","I"," ","c","a","l","l"," ","c","o","m","p","l","e","t","e","d","."," ","D","e","t","a","i","l",":"," ">> \o o.detail >>
                        /\ pc' = ImageReturn
                        /\ attempted' = <<>>
                        /\ api_errors' = <<>>
                   ELSE /\ attempted' = Append(attempted, <<"O","p","e","n","A","I">>)
                        /\ api_errors' = Append(api_errors, <<"O","p","e","n","A","I"," ","f","a","i","l","e","d",":"," ">> \o e)
                        /\ console' = console \o
                             (<< <<"[","L","y","r","i","c","i","s","t","A","g","e","n","t","]"," ","A","t","t","e","m","p","t","i","n","g"," ","O","p","e","n","A","I"," ","I","m","a","g","e","s"," ","g","e","n","e","r","a","t","i","o","n",".",".",".">> >>
                              \o (IF o.raises THEN <<>>
                                  ELSE << <<"[","L","y","r","i","c","i","s","t","A","g","e","n","t","]"," ","O","p","e","n","A","I"," ","c","a","l","l"," ","c","o","m","p","l","e","t","e","d","."," ","D","e","t","a","i","l",":"," ">> \o o.detail >>)
                              \o << <<"[","L","y","r","i","c","i","s","t","A","g","e","n","t","]"," ","O","p","e","n","A","I"," ","e","r","r","o","r",":"," ">> \o e >>)
                        /\ pc' = "img_local"
                        /\ UNCHANGED ires
       ELSE /\ console' = Append(console, <<"[","L","y","r","i","c","i","s","t","A","g","e","n","t","]"," ","S","k","i","p","p","i","n","g"," ","O","p","e","n","A","I",":"," ","O","P","E","N","A","I","_","A","P","I","_","K","E","Y"," ","n","o","t"," ","s","e","t"," ","o","r"," ","e","m","p","t","y",".">>)
            /\ pc' = "img_local"
            /\ UNCHANGED <<attempted, calls, fs, api_errors, ires>>
    /\ UNCHANGED <<entry, environ, installed, description>>
    /\ UNCHANGED watcherVars /\ UNCHANGED downloadVars /\ UNCHANGED handleVars
    /\ UNCHANGED polls
    /\ UNCHANGED pickerVars /\ UNCHANGED normalizeVars

\* lines 126-150
GenerateImage_Fallback ==
    /\ pc = "img_local"
    /\ LET details == AttemptDetails(attempted, api_errors)
       IN  IF "PIL" \notin installed
           THEN /\ ires' = Some(ImageResult(FALSE, None,
                        Some(<<"N","o"," ","i","m","a","g","e"," ","g","e","n","e","r","a","t","e","d","."," ","P","i","l","l","o","w"," ","n","o","t"," ","i","n","s","t","a","l","l","e","d"," ","a","n","d"," ","e","x","t","e","r","n","a","l"," ","A","P","I","s"," ","u","n","a","v","a","i","l","a","b","l","e","/","f","a","i","l","e","d",".">>),
                        Some(details \o <<" ","I","n","s","t","a","l","l"," ","P","i","l","l","o","w"," ","o","r"," ","s","e","t"," ","R","E","P","L","I","C","A","T","E","_","A","P","I","_","T","O","K","E","N"," ","/"," ","O","P","E","N","A","I","_","A","P","I","_","K","E","Y"," ","i","n"," ","e","n","v","i","r","o","n","m","e","n","t",".">>)))
                /\ console' = Append(console, <<"[","L","y","r","i","c","i","s","t","A","g","e","n","t","]"," ","F","a","l","l","i","n","g"," ","b","a","c","k"," ","f","a","i","l","e","d",":"," ","P","i","l","l","o","w"," ","n","o","t"," ","a","v","a","i","l","a","b","l","e",".">>)
                /\ UNCHANGED <<fs, calls>>
           ELSE \E o \in RenderOutcomes :
                LET f1 == render_placeholder(fs, IMAGE_OUTPUT_FILE, o)
                    line136 == <<"[","L","y","r","i","c","i","s","t","A","g","e","n","t","]"," ","U","s","i","n","g"," ","l","o","c","a","l"," ","P","i","l","l","o","w"," ","f","a","l","l","b","a","c","k"," ","r","e","n","d","e","r","e","r"," ","(","n","o"," ","e","x","t","e","r","n","a","l"," ","A","P","I"," ","s","u","c","c","e","e","d","e","d",")",".">>
                IN  /\ calls' = Append(calls, Attempt("local", Produced(o)))
                    /\ fs' = f1
                    /\ IF o.raises
                       THEN /\ ires' = Some(ImageResult(FALSE, None, Some(<<"F","a","i","l","e","d"," ","t","o"," ","g","e","n","e","r","a","t","e"," ","i","m","a","g","e"," ","(","f","a","l","l","b","a","c","k",")",".">>),
                                                        Some(details \o <<" ","|"," ">> \o o.e)))
                            /\ console' = console \o << line136,
                                   <<"[","L","y","r","i","c","i","s","t","A","g","e","n","t","]"," ","L","o","c","a","l"," ","f","a","l","l","b","a","c","k"," ","r","e","n","d","e","r","i","n","g"," ","f","a","i","l","e","d",":"," ">> \o o.e >>
                       ELSE IF ~path_exists(f1, IMAGE_OUTPUT_FILE)
                       THEN /\ ires' = Some(ImageResult(FALSE, None, Some(<<"I","m","a","g","e"," ","f","i","l","e"," ","n","o","t"," ","c","r","e","a","t","e","d",".">>),
                                                        Some(details \o <<" ","T","r","i","e","d",":"," ">> \o IMAGE_OUTPUT_FILE)))
                            /\ console' = console \o << line136,
                                   <<"[","L","y","r","i","c","i","s","t","A","g","e","n","t","]"," ","E","x","p","e","c","t","e","d"," ","o","u","t","p","u","t"," ","f","i","l","e"," ","m","i","s","s","i","n","g"," ","a","f","t","e","r"," ","f","a","l","l","b","a","c","k",":"," ">> \o IMAGE_OUTPUT_FILE >>
                       ELSE /\ ires' = Some(ImageResult(TRUE, Some(IMAGE_OUTPUT_FILE), None,
                                Some(<<"R","e","n","d","e","r","e","d"," ","l","o","c","a","l","l","y">> \o <<" ","(","f","a","l","l","b","a","c","k"," ","p","l","a","c","e","h","o","l","d","e","r",")">> \o <<" ","|"," ","p","r","o","m","p","t"," ","s","n","i","p","p","e","t",":"," ">>
                                     \o Take(description, 80))))
                            /\ console' = Append(console, line136)
    /\ attempted' = <<>>
    /\ api_errors' = <<>>
    /\ pc' = ImageReturn
    /\ UNCHANGED <<entry, environ, installed, description>>
    /\ UNCHANGED watcherVars /\ UNCHANGED downloadVars /\ UNCHANGED handleVars
    /\ UNCHANGED polls
    /\ UNCHANGED pickerVars /\ UNCHANGED normalizeVars

\* ------------------------------------------------------------------------
\* WatcherAgent: text functions
\* ------------------------------------------------------------------------

\* re.sub(r"\r", "\n", raw)
SubCR(s) == [i \in 1..Len(s) |-> IF s[i] = "\r" THEN "\n" ELSE s[i]]

\* length of the run of characters of set cs that starts s
RECURSIVE RunLen(_, _)
RunLen(s, cs) == IF s # <<>> /\ Head(s) \in cs THEN 1 + RunLen(Tail(s), cs) ELSE 0

Drop(s, n) == SubSeq(s, n + 1, Len(s))

\* re.sub(r"[ \t]+", " ", raw): each run of blanks leaves one space
SubBlanks(s) ==
    LET Blank(i) == s[i] \in {" ", "\t"}
        Kept(i) == ~(Blank(i) /\ i > 1 /\ Blank(i - 1))
        idx == Indices(s, Kept)
    IN  [k \in 1..Len(idx) |-> IF Blank(idx[k]) THEN " " ELSE s[idx[k]]]

\* re.sub(r"\n{3,}", "\n\n", raw): of each run of newlines the first two stay
SubNewlines(s) ==
    LET Kept(i) == ~(s[i] = "\n" /\ i > 2 /\ s[i - 1] = "\n" /\ s[i - 2] = "\n")
        idx == Indices(s, Kept)
    IN  [k \in 1..Len(idx) |-> s[idx[k]]]

\* faulty variant: runs of newlines are collapsed before "\r" is replaced
normalize_whitespace_NewlinesFirst(raw) ==
    IF raw = <<>> THEN <<>>
    ELSE Strip(SubBlanks(SubCR(SubNewlines(raw))))

\* lines 233-239
normalize_whitespace(raw) ==
    IF raw = <<>> THEN <<>>
    ELSE Strip(SubNewlines(SubBlanks(SubCR(raw))))

\* re.match(r"^\s*description\s*[:\-]?\s*$", line, flags=re.IGNORECASE)
IsDescriptionHeading(line) ==
    LET l == LStrip(line)
        rest == LStrip(Drop(l, 11))
    IN  /\ Len(l) >= 11
        /\ Lower(Take(l, 11)) = <<"d","e","s","c","r","i","p","t","i","o","n">>
        /\ \/ AllWhitespace(rest)
           \/ Head(rest) \in {":", "-"} /\ AllWhitespace(Tail(rest))

looks_like_heading(line) ==
    IF line = <<>> THEN FALSE
    ELSE IF Len(line) <= 4 THEN TRUE
    ELSE IF IsUpper(line) /\ Len(line) <= 60 THEN TRUE
    ELSE \* re.match(r"^[A-Z][A-Za-z0-9 ]{0,60}$", line) and len(line.split()) <= 8
         /\ IsUpperChar(line[1])
         /\ Len(line) <= 61
         /\ \A i \in 2..Len(line) : IsAlpha(line[i]) \/ line[i] \in Digits \/ line[i] = " "
         /\ WordCount(line) <= 8

\* the loop of _normalize_paragraphs, with its buf and cur
RECURSIVE ParagraphLoop(_, _, _)
ParagraphLoop(lines, buf, cur) ==
    IF lines = <<>>
    THEN IF cur # <<>> THEN Append(buf, Join(cur, <<" ">>)) ELSE buf
    ELSE IF Head(lines) = <<>>
         THEN IF cur # <<>> THEN ParagraphLoop(Tail(lines), Append(buf, Join(cur, <<" ">>)), <<>>)
              ELSE ParagraphLoop(Tail(lines), buf, cur)
    ELSE ParagraphLoop(Tail(lines), buf, Append(cur, Head(lines)))

\* faulty variant: paragraphs joined without a blank line
normalize_paragraphs_SingleNewline(lines) == Join(ParagraphLoop(lines, <<>>, <<>>), <<"\n">>)

normalize_paragraphs(lines) == Join(ParagraphLoop(lines, <<>>, <<>>), <<"\n", "\n">>)

\* the inner loop at lines 252-255: lines[idx+1:] up to the first heading-like line
RECURSIVE CollectBlock(_)
CollectBlock(lines) ==
    IF lines = <<>> \/ looks_like_heading(Head(lines)) THEN <<>>
    ELSE <<Head(lines)>> \o CollectBlock(Tail(lines))

\* the outer loop at lines 249-258: the first description heading with a non-empty block
RECURSIVE DescriptionBlock(_)
DescriptionBlock(lines) ==
    IF lines = <<>> THEN <<>>
    ELSE LET candidate == Strip(normalize_paragraphs(CollectBlock(Tail(lines))))
         IN  IF IsDescriptionHeading(Head(lines)) /\ candidate # <<>>
             THEN Strip(Take(candidate, 1200))
             ELSE DescriptionBlock(Tail(lines))

\* end of the leftmost match of \n\s*\n starting at s[i] = "\n" (0 when there is none):
\* the last newline of the whitespace run that starts there
SeparatorEnd(s, i) ==
    LET run == RunLen(Drop(s, i - 1), Whitespace)
        ends == {j \in (i + 1)..(i + run - 1) : s[j] = "\n"}
    IN  IF ends = {} THEN 0 ELSE CHOOSE j \in ends : \A k \in ends : k <= j

\* re.split(r"\n\s*\n", text)
RECURSIVE SplitParagraphs(_, _)
SplitParagraphs(s, from) ==
    LET starts == {i \in from..Len(s) : s[i] = "\n" /\ SeparatorEnd(s, i) # 0}
    IN  IF starts = {} THEN <<s>>
        ELSE LET i == CHOOSE x \in starts : \A y \in starts : x <= y
             IN  <<SubSeq(s, 1, i - 1)>> \o SplitParagraphs(Drop(s, SeparatorEnd(s, i)), 1)

\* faulty variant: a paragraph of exactly 40 characters is skipped
IsLongParagraph_Over40(p) == Len(p) > 40

\* line 262: len(p) >= 40
IsLongParagraph(p) == Len(p) >= 40

\* the loop at lines 261-263
RECURSIVE FirstLongParagraph(_)
FirstLongParagraph(paragraphs) ==
    IF paragraphs = <<>> THEN <<>>
    ELSE IF IsLongParagraph(Head(paragraphs)) THEN Strip(Take(Head(paragraphs), 1200))
    ELSE FirstLongParagraph(Tail(paragraphs))

\* faulty variant: without the last resort of line 265
find_description_block_NoLastResort(text) ==
    IF text = <<>> THEN <<>>
    ELSE LET lines == [i \in 1..Len(SplitOn(text, "\n")) |-> Strip(SplitOn(text, "\n")[i])]
             block == DescriptionBlock(lines)
             stripped == [i \in 1..Len(SplitParagraphs(text, 1)) |-> Strip(SplitParagraphs(text, 1)[i])]
             paragraphs == SelectSeq(stripped, LAMBDA p : p # <<>>)
             long == FirstLongParagraph(paragraphs)
         IN  IF block # <<>> THEN block
             ELSE long

find_description_block(text) ==
    IF text = <<>> THEN <<>>
    ELSE LET lines == [i \in 1..Len(SplitOn(text, "\n")) |-> Strip(SplitOn(text, "\n")[i])]
             block == DescriptionBlock(lines)
             stripped == [i \in 1..Len(SplitParagraphs(text, 1)) |-> Strip(SplitParagraphs(text, 1)[i])]
             paragraphs == SelectSeq(stripped, LAMBDA p : p # <<>>)
             long == FirstLongParagraph(paragraphs)
         IN  IF block # <<>> THEN block
             ELSE IF long # <<>> THEN long
             ELSE Strip(Take(text, 300))

\* the loop of _pick_best_text
RECURSIVE PickLoop(_, _)
PickLoop(candidates, best) ==
    IF candidates = <<>> THEN best
    ELSE LET c == Head(candidates)
         IN  PickLoop(Tail(candidates), IF c # <<>> /\ Len(Strip(c)) > Len(Strip(best)) THEN c ELSE best)

pick_best_text(candidates) == PickLoop(candidates, <<>>)

\* ------------------------------------------------------------------------
\* WatcherAgent.get_description_from_pdf
\* ------------------------------------------------------------------------

WatcherResult(success, desc, error, details) ==
    [success |-> success, description |-> desc, error |-> error, details |-> details]

\* page.extract_text() of each page, as one parser may read them; parsers
\* may read the same file differently
PageReadings ==
    { <<>>,
      << <<" ","\t">>, <<>> >>,
      << <<"H","i","\r","\n","t","h","e","r","e">> >>,
      << <<"R","e","p","o","r","t"," ","7","\n","D","e","s","c","r","i","p","t","i","o","n",":","\n","A"," ","r","e","d"," ","f","o","x"," ","j","u","m","p","s"," ","o","v","e","r"," ","t","h","e"," ","l","a","z","y"," ","d","o","g",","," ","n","e","a","r"," ","a"," ","r","i","v","e","r",".","\n","\n","I","t"," ","i","s"," ","d","u","s","k",".","\n","N","O","T","E","S","\n","f","i","n">> >> }

\* pytesseract.image_to_string of each rasterized page
OcrReadings ==
    { << <<>> >>,
      << <<"s","c","a","n">> >>,
      << <<"s","c","a","n">>, <<>>, <<"p","a","g","e">>, <<"4">> >>,
      << <<"S","c","a","n","n","e","d"," ","p","a","g","e",":"," ","R","e","n","d","e","r","e","d"," ","l","o","c","a","l","l","y"," ","b","y"," ","t","h","e"," ","t","o","w","n"," ","p","r","e","s","s"," ","i","n"," ","1","9","1","2",".">> >> }

\* the exception a backend may raise
BackendErrors == { <<"E","O","F"," ","m","a","r","k","e","r"," ","n","o","t"," ","f","o","u","n","d">> }

\* lines 157-166, 168-176, 178-190: text of the first five pages, normalized
extract_text_with_pypdf2(pages) == normalize_whitespace(Join(Take(pages, 5), <<"\n">>))
extract_text_with_pdfplumber(pages) == normalize_whitespace(Join(Take(pages, 5), <<"\n">>))
extract_text_with_pymupdf(pages) == normalize_whitespace(Join(Take(pages, 5), <<"\n">>))

\* lines 192-221: OCR of the first max_pages pages; empty page results are left out
extract_text_with_ocr(pages, max_pages) ==
    normalize_whitespace(Join(SelectSeq(Take(pages, max_pages), LAMBDA t : t # <<>>), <<"\n">>))

\* lines 292-311 (the bullet character of two hint lines is written "*")
build_guidance_message(errs) ==
    LET bullets == [i \in 1..Len(errs) |-> <<"*"," ">> \o errs[i]]
        attempted_text == IF errs # <<>> THEN Join(bullets, <<"\n">>)
                          ELSE <<"*"," ","N","o"," ","e","r","r","o","r","s"," ","c","a","p","t","u","r","e","d"," ","(","e","m","p","t","y"," ","t","e","x","t",")",".">>
        hints == << <<"-"," ","E","n","s","u","r","e"," ","t","h","e"," ","P","D","F"," ","c","o","n","t","a","i","n","s"," ","s","e","l","e","c","t","a","b","l","e"," ","t","e","x","t","."," ","I","f"," ","i","t","'","s"," ","s","c","a","n","n","e","d",","," ","O","C","R"," ","i","s"," ","r","e","q","u","i","r","e","d",".">>,
                    <<"-"," ","I","f"," ","O","C","R"," ","f","a","i","l","e","d",","," ","i","n","s","t","a","l","l"," ","t","h","e"," ","T","e","s","s","e","r","a","c","t"," ","b","i","n","a","r","y"," ","a","n","d"," ","l","a","n","g","u","a","g","e"," ","d","a","t","a",":">>,
                    <<" "," ","*"," ","U","b","u","n","t","u","/","D","e","b","i","a","n",":"," ","s","u","d","o"," ","a","p","t","-","g","e","t"," ","u","p","d","a","t","e"," ","&","&"," ","s","u","d","o"," ","a","p","t","-","g","e","t"," ","i","n","s","t","a","l","l"," ","-","y"," ","t","e","s","s","e","r","a","c","t","-","o","c","r">>,
                    <<" "," ","*"," ","m","a","c","O","S"," ","(","H","o","m","e","b","r","e","w",")",":"," ","b","r","e","w"," ","i","n","s","t","a","l","l"," ","t","e","s","s","e","r","a","c","t">>,
                    <<" "," ","*"," ","W","i","n","d","o","w","s",":"," ","I","n","s","t","a","l","l"," ","f","r","o","m"," ","h","t","t","p","s",":","/","/","g","i","t","h","u","b",".","c","o","m","/","t","e","s","s","e","r","a","c","t","-","o","c","r","/","t","e","s","s","e","r","a","c","t"," ","a","n","d"," ","e","n","s","u","r","e"," ","i","t"," ","i","s"," ","o","n"," ","P","A","T","H">>,
                    <<"-"," ","R","e","-","r","u","n"," ","a","f","t","e","r"," ","i","n","s","t","a","l","l","i","n","g"," ","s","y","s","t","e","m"," ","d","e","p","e","n","d","e","n","c","i","e","s"," ","a","n","d"," ","P","y","t","h","o","n"," ","p","a","c","k","a","g","e","s",".">> >>
    IN  <<"T","r","i","e","d"," ","m","u","l","t","i","p","l","e"," ","e","x","t","r","a","c","t","i","o","n"," ","b","a","c","k","e","n","d","s"," ","b","u","t"," ","c","o","u","l","d"," ","n","o","t"," ","o","b","t","a","i","n"," ","a"," ","s","u","i","t","a","b","l","e"," ","d","e","s","c","r","i","p","t","i","o","n",".","\n","\n">>
        \o <<"A","t","t","e","m","p","t","e","d"," ","b","a","c","k","e","n","d","s"," ","a","n","d"," ","e","r","r","o","r","s",":","\n">>
        \o attempted_text \o <<"\n","\n">>
        \o <<"H","o","w"," ","t","o"," ","p","r","o","c","e","e","d",":","\n">>
        \o Join(hints, <<"\n">>)

\* lines 119-124: the first backend whose text is not blank
RECURSIVE FirstNonBlankBackend(_)
FirstNonBlankBackend(ts) ==
    IF ts = <<>> THEN None
    ELSE IF Head(ts)[2] # <<>> /\ Strip(Head(ts)[2]) # <<>> THEN Some(Head(ts)[1])
    ELSE FirstNonBlankBackend(Tail(ts))

\* faulty variant: the empty description is not rejected
NoDescription_Never(desc) == FALSE

\* line 143: not description
NoDescription(desc) == desc = <<>>

\* line 125: not best_text or len(best_text.strip()) < 40
NeedsOcr(best) == best = <<>> \/ Len(Strip(best)) < 40

\* faulty variant: an OCR text of the same length supersedes too
OcrSupersedes_OrEqual(ocr_text, best) == ocr_text # <<>> /\ Len(Strip(ocr_text)) >= Len(best)

\* line 129: ocr_text and len(ocr_text.strip()) > len(best_text or "")
OcrSupersedes(ocr_text, best) == ocr_text # <<>> /\ Len(Strip(ocr_text)) > Len(best)

WatcherReturn == IF entry = "handle" THEN "h_after_watcher" ELSE "done"

\* lines 73-89
GetDescription_Validate ==
    /\ pc = "w_start"
    /\ calls' = <<>>
    /\ IF pdf_path = <<>> \/ Strip(pdf_path) = <<>>
       THEN /\ wres' = Some(WatcherResult(FALSE, None, Some(<<"N","o"," ","P","D","F"," ","p","a","t","h"," ","p","r","o","v","i","d","e","d",".">>),
                                          Some(<<"P","l","e","a","s","e"," ","p","r","o","v","i","d","e"," ","a"," ","v","a","l","i","d"," ","p","a","t","h"," ","t","o"," ","a"," ","P","D","F"," ","f","i","l","e",".">>)))
            /\ pc' = WatcherReturn
            /\ UNCHANGED <<texts, errors>>
       ELSE LET path == Strip(pdf_path)
            IN  IF ~path_exists(fs, path) \/ ~path_isfile(fs, path)
                THEN /\ wres' = Some(WatcherResult(FALSE, None, Some(<<"P","D","F"," ","f","i","l","e"," ","d","o","e","s"," ","n","o","t"," ","e","x","i","s","t",".">>),
                                                   Some(<<"P","r","o","v","i","d","e","d"," ","p","a","t","h",":"," ">> \o path)))
                     /\ pc' = WatcherReturn
                     /\ UNCHANGED <<texts, errors>>
                ELSE /\ texts' = <<>>
                     /\ errors' = <<>>
                     /\ pc' = "w_pypdf2"
                     /\ UNCHANGED wres
    /\ UNCHANGED <<entry, environ, installed, fs, console, pdf_path, best_text, used_backend>>
    /\ UNCHANGED imageVars /\ UNCHANGED downloadVars /\ UNCHANGED handleVars
    /\ UNCHANGED pickerVars /\ UNCHANGED normalizeVars

\* lines 91-96
GetDescription_PyPDF2 ==
    /\ pc = "w_pypdf2"
    /\ IF "PyPDF2" \in installed
       THEN \/ \E pages \in PageReadings :
                 LET t == extract_text_with_pypdf2(pages)
                 IN  /\ texts' = Append(texts, << <<"P","y","P","D","F","2">>, t >>)
                     /\ calls' = Append(calls, Attempt("PyPDF2", IF Strip(t) = <<>> THEN "empty" ELSE "ok"))
                     /\ UNCHANGED errors
            \/ \E e \in BackendErrors :
                 /\ errors' = Append(errors, <<"P","y","P","D","F","2"," ","f","a","i","l","e","d",":"," ">> \o e)
                 /\ calls' = Append(calls, Attempt("PyPDF2", "raised"))
                 /\ UNCHANGED texts
       ELSE UNCHANGED <<calls, texts, errors>>
    /\ pc' = "w_pdfplumber"
    /\ UNCHANGED <<entry, environ, installed, fs, console, pdf_path, best_text, used_backend, wres>>
    /\ UNCHANGED imageVars /\ UNCHANGED downloadVars /\ UNCHANGED handleVars
    /\ UNCHANGED pickerVars /\ UNCHANGED normalizeVars

\* lines 98-105
GetDescription_Pdfplumber ==
    /\ pc = "w_pdfplumber"
    /\ IF "pdfplumber" \in installed
       THEN \/ \E pages \in PageReadings :
                 LET t == extract_text_with_pdfplumber(pages)
                 IN  /\ texts' = Append(texts, << <<"p","d","f","p","l","u","m","b","e","r">>, t >>)
                     /\ calls' = Append(calls, Attempt("pdfplumber", IF Strip(t) = <<>> THEN "empty" ELSE "ok"))
                     /\ UNCHANGED errors
            \/ \E e \in BackendErrors :
                 /\ errors' = Append(errors, <<"p","d","f","p","l","u","m","b","e","r"," ","f","a","i","l","e","d",":"," ">> \o e)
                 /\ calls' = Append(calls, Attempt("pdfplumber", "raised"))
                 /\ UNCHANGED texts
       ELSE /\ errors' = Append(errors, <<"p","d","f","p","l","u","m","b","e","r"," ","n","o","t"," ","i","n","s","t","a","l","l","e","d",".">>)
            /\ UNCHANGED <<calls, texts>>
    /\ pc' = "w_pymupdf"
    /\ UNCHANGED <<entry, environ, installed, fs, console, pdf_path, best_text, used_backend, wres>>
    /\ UNCHANGED imageVars /\ UNCHANGED downloadVars /\ UNCHANGED handleVars
    /\ UNCHANGED pickerVars /\ UNCHANGED normalizeVars

\* lines 107-114
GetDescription_PyMuPDF ==
    /\ pc = "w_pymupdf"
    /\ IF "fitz" \in installed
       THEN \/ \E pages \in PageReadings :
                 LET t == extract_text_with_pymupdf(pages)
                 IN  /\ texts' = Append(texts, << <<"P","y","M","u","P","D","F">>, t >>)
                     /\ calls' = Append(calls, Attempt("PyMuPDF", IF Strip(t) = <<>> THEN "empty" ELSE "ok"))
                     /\ UNCHANGED errors
            \/ \E e \in BackendErrors :
                 /\ errors' = Append(errors, <<"P","y","M","u","P","D","F"," ","f","a","i","l","e","d",":"," ">> \o e)
                 /\ calls' = Append(calls, Attempt("PyMuPDF", "raised"))
                 /\ UNCHANGED texts
       ELSE /\ errors' = Append(errors, <<"P","y","M","u","P","D","F"," ","(","f","i","t","z",")"," ","n","o","t"," ","i","n","s","t","a","l","l","e","d",".">>)
            /\ UNCHANGED <<calls, texts>>
    /\ pc' = "w_ocr"
    /\ UNCHANGED <<entry, environ, installed, fs, console, pdf_path, best_text, used_backend, wres>>
    /\ UNCHANGED imageVars /\ UNCHANGED downloadVars /\ UNCHANGED handleVars
    /\ UNCHANGED pickerVars /\ UNCHANGED normalizeVars

\* lines 116-138
GetDescription_OCR ==
    /\ pc = "w_ocr"
    /\ LET best == pick_best_text([i \in 1..Len(texts) |-> texts[i][2]])
           backend == IF best # <<>> THEN FirstNonBlankBackend(texts) ELSE None
       IN  IF NeedsOcr(best)
           THEN IF "pytesseract" \in installed /\ "fitz" \in installed
                THEN \/ \E pages \in OcrReadings :
                             LET ocr_text == extract_text_with_ocr(pages, 3)
                             IN  /\ calls' = Append(calls, Attempt("OCR", IF Strip(ocr_text) = <<>> THEN "empty" ELSE "ok"))
                                 /\ IF OcrSupersedes(ocr_text, best)
                                    THEN /\ best_text' = ocr_text
                                         /\ used_backend' = Some(<<"O","C","R","(","p","y","t","e","s","s","e","r","a","c","t",")","+","P","y","M","u","P","D","F">>)
                                    ELSE /\ best_text' = best
                                         /\ used_backend' = backend
                                 /\ UNCHANGED errors
                     \/ \E e \in BackendErrors :
                             /\ calls' = Append(calls, Attempt("OCR", "raised"))
                             /\ errors' = Append(errors, <<"O","C","R"," ","f","a","l","l","b","a","c","k"," ","f","a","i","l","e","d",":"," ">> \o e)
                             /\ best_text' = best
                             /\ used_backend' = backend
                ELSE /\ errors' = errors
                        \o (IF "pytesseract" \notin installed
                            THEN << <<"O","C","R"," ","n","o","t"," ","a","v","a","i","l","a","b","l","e",":"," ","p","y","t","e","s","s","e","r","a","c","t"," ","n","o","t"," ","i","n","s","t","a","l","l","e","d",".">> >> ELSE <<>>)
                        \o (IF "fitz" \notin installed
                            THEN << <<"O","C","R"," ","r","e","q","u","i","r","e","s"," ","P","y","M","u","P","D","F"," ","(","f","i","t","z",")"," ","t","o"," ","r","a","s","t","e","r","i","z","e"," ","p","a","g","e","s"," ","t","o"," ","i","m","a","g","e","s",".">> >> ELSE <<>>)
                     /\ best_text' = best
                     /\ used_backend' = backend
                     /\ UNCHANGED calls
           ELSE /\ best_text' = best
                /\ used_backend' = backend
                /\ UNCHANGED <<calls, errors>>
    /\ pc' = "w_finish"
    /\ UNCHANGED <<entry, environ, installed, fs, console, pdf_path, texts, wres>>
    /\ UNCHANGED imageVars /\ UNCHANGED downloadVars /\ UNCHANGED handleVars
    /\ UNCHANGED pickerVars /\ UNCHANGED normalizeVars

\* lines 140-155; the locals are gone once the call has returned
GetDescription_Finish ==
    /\ pc = "w_finish"
    /\ LET text == normalize_whitespace(best_text)
           desc == find_description_block(text)
       IN  IF NoDescription(desc)
           THEN wres' = Some(WatcherResult(FALSE, None, Some(<<"N","o"," ","s","u","i","t","a","b","l","e"," ","d","e","s","c","r","i","p","t","i","o","n"," ","t","e","x","t"," ","f","o","u","n","d"," ","i","n"," ","t","h","e"," ","P","D","F",".">>),
                                           Some(build_guidance_message(errors))))
           ELSE wres' = Some(WatcherResult(TRUE, Some(desc), None,
                                           Some(IF IsSet(used_backend)
                                                THEN <<"E","x","t","r","a","c","t","e","d"," ","v","i","a",":"," ">> \o used_backend[1]
                                                ELSE <<"E","x","t","r","a","c","t","e","d"," ","v","i","a",":"," ","U","n","k","n","o","w","n"," ","b","a","c","k","e","n","d">>)))
    /\ texts' = <<>>
    /\ errors' = <<>>
    /\ best_text' = <<>>
    /\ used_backend' = None
    /\ pc' = WatcherReturn
    /\ UNCHANGED <<entry, environ, installed, fs, console, calls, pdf_path>>
    /\ UNCHANGED imageVars /\ UNCHANGED downloadVars /\ UNCHANGED handleVars
    /\ UNCHANGED pickerVars /\ UNCHANGED normalizeVars

\* ------------------------------------------------------------------------
\* download_pdf_to_temp
\* ------------------------------------------------------------------------

DownloadResult(success, file_path, error, details) ==
    [success |-> success, file_path |-> file_path, error |-> error, details |-> details]

\* the scheme characters of urllib.parse (letters, digits, "+", "-", ".")
IsSchemeChar(c) == IsAlpha(c) \/ c \in Digits \/ c \in {"+", "-", "."}

\* urllib.parse.urlparse(url).scheme: the text before the first ":" in lower
\* case, when it starts with a letter and consists of scheme characters
UrlScheme(u) ==
    LET IsColon(i) == u[i] = ":"
        colons == Indices(u, IsColon)
    IN  IF colons = <<>> \/ colons[1] = 1 THEN <<>>
        ELSE LET head == SubSeq(u, 1, colons[1] - 1)
             IN  IF IsAlpha(head[1]) /\ \A i \in 1..Len(head) : IsSchemeChar(head[i])
                 THEN Lower(head) ELSE <<>>

DigitChars == <<"0","1","2","3","4","5","6","7","8","9">>

\* str(n) for a three-digit status code
StatusText(n) == << DigitChars[(n \div 100) + 1], DigitChars[((n \div 10) % 10) + 1], DigitChars[(n % 10) + 1] >>

\* what requests.get(url, stream=True, ...) can do: raise, or answer with a status
RequestOutcomes ==
    { [raises |-> "SSLError", status |-> 0],
      [raises |-> "Timeout", status |-> 0],
      [raises |-> "ConnectionError", status |-> 0],
      [raises |-> "", status |-> 404],
      [raises |-> "", status |-> 200] }

\* what resp.iter_content can deliver: the chunks of the body, and whether the
\* stream then breaks (a requests exception raised inside the write loop)
StreamOutcomes ==
    { [chunks |-> << <<"%","P","D","F","-","1",".","4"," ","o","b","j">> >>, raises |-> ""],
      [chunks |-> << <<"%","P","D">>, <<>>, <<"F","-","1",".","7">> >>, raises |-> ""],
      [chunks |-> << <<"<","h","t","m","l",">">> >>, raises |-> ""],
      [chunks |-> <<>>, raises |-> ""],
      [chunks |-> << <<"%","P","D","F","-","1",".","4">> >>, raises |-> "ConnectionError"],
      [chunks |-> <<>>, raises |-> "Timeout"] }

\* tempfile.mkstemp(prefix="download_", suffix=".pdf")
TEMP_FILE == <<"/","t","m","p","/","d","o","w","n","l","o","a","d","_","k","3","x","9",".","p","d","f">>

\* lines 68-77: the first five bytes of the first non-empty chunk
RECURSIVE FirstBytes(_)
FirstBytes(chunks) ==
    IF chunks = <<>> THEN <<>>
    ELSE IF Head(chunks) # <<>> THEN Take(Head(chunks), 5)
    ELSE FirstBytes(Tail(chunks))

\* faulty variant: ftp passes the scheme test
SupportedSchemes_WithFtp == {<<"h","t","t","p">>, <<"h","t","t","p","s">>, <<"f","t","p">>}

\* line 43: ("http", "https")
SupportedSchemes == {<<"h","t","t","p">>, <<"h","t","t","p","s">>}

\* faulty variant: the partial file is left behind
CleanupTemp_Keep(f) == f

\* lines 104-106: os.remove(temp_path) if it exists
CleanupTemp(f) == IF path_exists(f, TEMP_FILE) THEN RemoveFile(f, TEMP_FILE) ELSE f

\* how a call of requests.get ended, for calls
RequestEnded(o) == IF o.raises # "" THEN "raised" ELSE IF o.status # 200 THEN "empty" ELSE "ok"

DownloadReturn == IF entry = "handle" THEN "h_after_download" ELSE "done"

\* lines 38-44
Download_Validate ==
    /\ pc = "d_start"
    /\ LET u == Strip(url)
       IN  IF u = <<>>
           THEN /\ dres' = Some(DownloadResult(FALSE, None, Some(<<"N","o"," ","U","R","L"," ","p","r","o","v","i","d","e","d",".">>),
                                               Some(<<"P","l","e","a","s","e"," ","p","r","o","v","i","d","e"," ","a"," ","v","a","l","i","d"," ","H","T","T","P","S","/","H","T","T","P"," ","U","R","L"," ","t","o"," ","a"," ","P","D","F",".">>)))
                /\ pc' = DownloadReturn
                /\ UNCHANGED url
           ELSE IF UrlScheme(u) \notin SupportedSchemes
           THEN /\ dres' = Some(DownloadResult(FALSE, None, Some(<<"U","n","s","u","p","p","o","r","t","e","d"," ","U","R","L"," ","s","c","h","e","m","e",".">>),
                                   Some(<<"U","R","L"," ","m","u","s","t"," ","s","t","a","r","t"," ","w","i","t","h"," ","h","t","t","p"," ","o","r"," ","h","t","t","p","s","."," ","G","o","t",":"," ">>
                                        \o (IF UrlScheme(u) # <<>> THEN UrlScheme(u) ELSE <<"n","o","n","e">>))))
                /\ pc' = DownloadReturn
                /\ UNCHANGED url
           ELSE /\ url' = u
                /\ pc' = "d_request"
                /\ UNCHANGED dres
    /\ UNCHANGED <<entry, environ, installed, fs, console, calls>>
    /\ UNCHANGED imageVars /\ UNCHANGED watcherVars /\ UNCHANGED handleVars
    /\ UNCHANGED pickerVars /\ UNCHANGED normalizeVars

\* lines 46-62, and the handlers at lines 110-115 for a request that raises
Download_Request ==
    /\ pc = "d_request"
    /\ \E o \in RequestOutcomes :
         /\ calls' = Append(calls, Attempt("requests.get", RequestEnded(o)))
         /\ IF o.raises = "SSLError"
            THEN /\ dres' = Some(DownloadResult(FALSE, None, Some(<<"S","S","L"," ","e","r","r","o","r"," ","d","u","r","i","n","g"," ","d","o","w","n","l","o","a","d",".">>), Some(<<"S","S","L","E","r","r","o","r">>)))
                 /\ pc' = DownloadReturn
                 /\ UNCHANGED fs
            ELSE IF o.raises = "Timeout"
            THEN /\ dres' = Some(DownloadResult(FALSE, None, Some(<<"N","e","t","w","o","r","k"," ","t","i","m","e","o","u","t"," ","d","u","r","i","n","g"," ","d","o","w","n","l","o","a","d",".">>), Some(<<"T","i","m","e","o","u","t">>)))
                 /\ pc' = DownloadReturn
                 /\ UNCHANGED fs
            ELSE IF o.raises # ""
            THEN /\ dres' = Some(DownloadResult(FALSE, None, Some(<<"N","e","t","w","o","r","k"," ","e","r","r","o","r"," ","d","u","r","i","n","g"," ","d","o","w","n","l","o","a","d",".">>), Some(<<"C","o","n","n","e","c","t","i","o","n","E","r","r","o","r">>)))
                 /\ pc' = DownloadReturn
                 /\ UNCHANGED fs
            ELSE IF o.status # 200
            THEN /\ dres' = Some(DownloadResult(FALSE, None,
                                    Some(<<"H","T","T","P"," ">> \o StatusText(o.status) \o <<" ","w","h","i","l","e"," ","d","o","w","n","l","o","a","d","i","n","g",".">>),
                                    Some(<<"U","R","L",":"," ">> \o url)))
                 /\ pc' = DownloadReturn
                 /\ UNCHANGED fs
            ELSE /\ fs' = WriteFile(fs, TEMP_FILE, <<>>)
                 /\ pc' = "d_stream"
                 /\ UNCHANGED dres
    /\ UNCHANGED <<entry, environ, installed, console, url>>
    /\ UNCHANGED imageVars /\ UNCHANGED watcherVars /\ UNCHANGED handleVars
    /\ UNCHANGED pickerVars /\ UNCHANGED normalizeVars

\* lines 64-109
Download_Stream ==
    /\ pc = "d_stream"
    /\ \E o \in StreamOutcomes :
         LET written == WriteFile(fs, TEMP_FILE, Join(o.chunks, <<>>))
             first_bytes == FirstBytes(o.chunks)
             head == Take(written[TEMP_FILE].data, 5)
         IN  IF o.raises # ""
             THEN \* lines 102-109: any exception inside the write loop
                  /\ fs' = CleanupTemp(written)
                  /\ dres' = Some(DownloadResult(FALSE, None, Some(<<"F","a","i","l","e","d"," ","t","o"," ","w","r","i","t","e"," ","d","o","w","n","l","o","a","d","e","d"," ","f","i","l","e",".">>),
                                                 Some(IF o.raises = "Timeout" THEN <<"T","i","m","e","o","u","t">> ELSE <<"C","o","n","n","e","c","t","i","o","n","E","r","r","o","r">>)))
             ELSE IF Take(first_bytes, 5) # <<"%","P","D","F","-">> /\ head # <<"%","P","D","F","-">>
             THEN /\ fs' = RemoveFile(written, TEMP_FILE)
                  /\ dres' = Some(DownloadResult(FALSE, None, Some(<<"D","o","w","n","l","o","a","d","e","d"," ","f","i","l","e"," ","i","s"," ","n","o","t"," ","a"," ","v","a","l","i","d"," ","P","D","F",".">>),
                                                 Some(<<"H","e","a","d","e","r"," ","s","i","g","n","a","t","u","r","e"," ","%","P","D","F","-"," ","n","o","t"," ","f","o","u","n","d",".">>)))
             ELSE /\ fs' = written
                  /\ dres' = Some(DownloadResult(TRUE, Some(TEMP_FILE), None, None))
    /\ pc' = DownloadReturn
    /\ UNCHANGED <<entry, environ, installed, console, calls, url>>
    /\ UNCHANGED imageVars /\ UNCHANGED watcherVars /\ UNCHANGED handleVars
    /\ UNCHANGED pickerVars /\ UNCHANGED normalizeVars

\* ------------------------------------------------------------------------
\* Command.handle
\* ------------------------------------------------------------------------

\* what the user may type at the prompt
Urls == { <<>>, <<" "," ">>, <<"f","t","p",":","/","/","h","/","a",".","p","d","f">>, <<"h","/","a",".","p","d","f">>, <<" ","H","T","T","P","S",":","/","/","h","/","a",".","p","d","f"," ">> }

\* url arguments of a direct call of download_pdf_to_temp
DownloadUrls == Urls \cup { <<"h","t","t","p",":","/","/","h","/","a",".","p","d","f">>, <<"f","i","l","e",":","/","/","/","a",".","p","d","f">> }

MANIFEST_FILE == <<"g","e","n","e","r","a","t","e","d","_","i","m","a","g","e","_","m","a","n","i","f","e","s","t",".","t","x","t">>

\* faulty variant: the code is dropped
set_return_code_AlwaysReturns(code) == "return"

\* lines 137-140: how the command goes on after _set_return_code(code)
set_return_code(code) == IF code # 0 THEN "SystemExit(1)" ELSE "return"

\* faulty variant: no cleanup
Finally_NoRemove(f, temp) == f

\* lines 111-118: the finally block
Finally(f, temp) == IF temp # <<>> /\ path_exists(f, temp) THEN RemoveFile(f, temp) ELSE f

\* lines 124-135 ("<utcnow>" stands for the timestamp)
ManifestContent(desc, image_path, source_url, temp_file) ==
    <<"#"," ","P","D","F"," ","-",">"," ","I","m","a","g","e"," ","M","a","n","i","f","e","s","t","\n">>
    \o <<"#"," ","G","e","n","e","r","a","t","e","d",":"," ","<","u","t","c","n","o","w",">","\n">>
    \o <<"#"," ","I","m","a","g","e",":"," ">> \o image_path \o <<"\n">>
    \o <<"#"," ","S","o","u","r","c","e"," ","U","R","L",":"," ">> \o source_url \o <<"\n">>
    \o <<"#"," ","T","e","m","p"," ","F","i","l","e",":"," ">> \o temp_file \o <<"\n", "\n">>
    \o <<"#","#"," ","D","e","s","c","r","i","p","t","i","o","n"," ","U","s","e","d","\n","\n">>
    \o desc \o <<"\n">>

\* open("generated_image_manifest.txt", "w") and write: done, or OSError
ManifestOutcomes == { [raises |-> FALSE, e |-> <<>>], [raises |-> TRUE, e |-> <<"[","E","r","r","n","o"," ","2","8","]"," ","N","o"," ","s","p","a","c","e"," ","l","e","f","t"," ","o","n"," ","d","e","v","i","c","e">>] }

write_manifest(f, desc, image_path, source_url, temp_file, o) ==
    IF o.raises THEN f ELSE WriteFile(f, MANIFEST_FILE, ManifestContent(desc, image_path, source_url, temp_file))

\* faulty variant: handle goes on after a failed stage
ResultFailed_Never(r, payload) == FALSE

\* lines 49, 63 and 75: not r.success or not r.<payload>
ResultFailed(r, payload) == ~r.success \/ payload = None \/ payload[1] = <<>>

\* an Optional[str] passed on as a string argument: None is as falsy as ""
OrEmpty(opt) == IF IsSet(opt) THEN opt[1] ELSE <<>>

\* the Reason/Details lines printed for a failed result
FailureLines(r) ==
    (IF IsSet(r.error) /\ r.error[1] # <<>> THEN << <<"R","e","a","s","o","n",":"," ">> \o r.error[1] >> ELSE <<>>)
    \o (IF IsSet(r.details) /\ r.details[1] # <<>> THEN << <<"D","e","t","a","i","l","s",":"," ">> \o r.details[1] >> ELSE <<>>)

\* lines 38-48
Handle_Prompt ==
    /\ pc = "h_start"
    /\ \E typed \in Urls :
         /\ pdf_url' = typed
         /\ IF typed = <<>> \/ Strip(typed) = <<>>
            THEN /\ console' = console \o << <<"P","D","F"," ","D","e","s","c","r","i","p","t","i","o","n"," ","-",">"," ","I","m","a","g","e">>, <<"N","o"," ","U","R","L"," ","p","r","o","v","i","d","e","d","."," ","A","b","o","r","t","i","n","g",".">> >>
                 /\ termination' = set_return_code(1)
                 /\ pc' = "h_exit"
                 /\ UNCHANGED <<url, stages>>
            ELSE /\ console' = console \o << <<"P","D","F"," ","D","e","s","c","r","i","p","t","i","o","n"," ","-",">"," ","I","m","a","g","e">>, <<"D","o","w","n","l","o","a","d","i","n","g"," ","P","D","F",".",".",".">> >>
                 /\ url' = typed
                 /\ stages' = Append(stages, "download")
                 /\ pc' = "d_start"
                 /\ UNCHANGED termination
    /\ UNCHANGED <<entry, environ, installed, fs, calls, dres, temp_path>>
    /\ UNCHANGED imageVars /\ UNCHANGED watcherVars
    /\ UNCHANGED pickerVars /\ UNCHANGED normalizeVars

\* lines 49-62
Handle_AfterDownload ==
    /\ pc = "h_after_download"
    /\ LET r == dres[1]
       IN  IF ResultFailed(r, r.file_path)
           THEN /\ console' = console \o << <<"F","a","i","l","e","d"," ","t","o"," ","d","o","w","n","l","o","a","d"," ","P","D","F",".">> >> \o FailureLines(r)
                /\ termination' = set_return_code(1)
                /\ pc' = "h_exit"
                /\ UNCHANGED <<temp_path, pdf_path, stages>>
           ELSE /\ temp_path' = OrEmpty(r.file_path)
                /\ console' = Append(console, <<"R","e","a","d","i","n","g"," ","P","D","F"," ","a","n","d"," ","e","x","t","r","a","c","t","i","n","g"," ","d","e","s","c","r","i","p","t","i","o","n",".",".",".">>)
                /\ pdf_path' = OrEmpty(r.file_path)
                /\ stages' = Append(stages, "extract")
                /\ pc' = "w_start"
                /\ UNCHANGED termination
    /\ UNCHANGED <<entry, environ, installed, fs, calls, pdf_url>>
    /\ UNCHANGED <<texts, errors, best_text, used_backend, wres>>
    /\ UNCHANGED imageVars /\ UNCHANGED downloadVars
    /\ UNCHANGED pickerVars /\ UNCHANGED normalizeVars

\* lines 63-74, with the finally block when the command exits here
Handle_AfterWatcher ==
    /\ pc = "h_after_watcher"
    /\ LET r == wres[1]
       IN  IF ResultFailed(r, r.description)
           THEN /\ console' = console \o << <<"F","a","i","l","e","d"," ","t","o"," ","e","x","t","r","a","c","t"," ","d","e","s","c","r","i","p","t","i","o","n"," ","f","r","o","m"," ","P","D","F",".">> >> \o FailureLines(r)
                /\ termination' = set_return_code(1)
                /\ fs' = Finally(fs, temp_path)
                /\ pc' = "h_exit"
                /\ UNCHANGED <<description, stages>>
           ELSE /\ console' = Append(console, <<"G","e","n","e","r","a","t","i","n","g"," ","i","m","a","g","e"," ","f","r","o","m"," ","d","e","s","c","r","i","p","t","i","o","n",".",".",".">>)
                /\ description' = OrEmpty(r.description)
                /\ stages' = Append(stages, "image")
                /\ pc' = "img_start"
                /\ UNCHANGED <<termination, fs>>
    /\ UNCHANGED <<entry, environ, installed, calls, pdf_url, temp_path>>
    /\ UNCHANGED <<api_errors, attempted, ires, polls>>
    /\ UNCHANGED watcherVars /\ UNCHANGED downloadVars
    /\ UNCHANGED pickerVars /\ UNCHANGED normalizeVars

\* lines 75-118
Handle_AfterImage ==
    /\ pc = "h_after_image"
    /\ LET r == ires[1]
           yesno(v) == IF Strip(v) # <<>> THEN <<"y","e","s">> ELSE <<"n","o">>
       IN  IF ResultFailed(r, r.image_path)
           THEN /\ console' = console \o << <<"F","a","i","l","e","d"," ","t","o"," ","g","e","n","e","r","a","t","e"," ","i","m","a","g","e",".">> >> \o FailureLines(r)
                     \o << <<"E","n","v"," ","O","P","E","N","A","I","_","A","P","I","_","K","E","Y"," ","d","e","t","e","c","t","e","d",":"," ">> \o yesno(environ.OPENAI_API_KEY),
                           <<"E","n","v"," ","R","E","P","L","I","C","A","T","E","_","A","P","I","_","T","O","K","E","N"," ","d","e","t","e","c","t","e","d",":"," ">> \o yesno(environ.REPLICATE_API_TOKEN) >>
                /\ termination' = set_return_code(1)
                /\ fs' = Finally(fs, temp_path)
                /\ UNCHANGED stages
           ELSE \E o \in ManifestOutcomes :
                LET f1 == write_manifest(fs, OrEmpty(wres[1].description), OrEmpty(r.image_path), pdf_url, temp_path, o)
                IN  /\ stages' = Append(stages, "manifest")
                    /\ fs' = Finally(f1, temp_path)
                    /\ IF o.raises
                       THEN /\ console' = Append(console, <<"U","n","a","b","l","e"," ","t","o"," ","w","r","i","t","e"," ","m","a","n","i","f","e","s","t",":"," ">> \o o.e)
                            /\ termination' = set_return_code(1)
                       ELSE /\ console' = console \o
                                 (IF IsSet(r.details) /\ Contains(r.details[1], <<"R","e","n","d","e","r","e","d"," ","l","o","c","a","l","l","y">>)
                                  THEN << <<"I","m","a","g","e"," ","s","a","v","e","d"," ","t","o"," ","'">> \o OrEmpty(r.image_path) \o <<"'"," ","(","L","O","C","A","L"," ","P","L","A","C","E","H","O","L","D","E","R",")",".">>,
                                          <<"G","e","n","e","r","a","t","o","r"," ","d","e","t","a","i","l","s",":"," ">> \o r.details[1] >>
                                  ELSE << <<"I","m","a","g","e"," ","s","a","v","e","d"," ","t","o"," ","'">> \o OrEmpty(r.image_path) \o <<"'"," ","(","A","I"," ","G","E","N","E","R","A","T","E","D",")",".">>,
                                          <<"G","e","n","e","r","a","t","o","r"," ","d","e","t","a","i","l","s",":"," ">>
                                             \o (IF IsSet(r.details) /\ r.details[1] # <<>> THEN r.details[1]
                                                 ELSE <<"N","o"," ","e","x","t","r","a"," ","d","e","t","a","i","l","s">>) >>)
                                 \o << <<"P","r","o","m","p","t"," ","u","s","e","d"," ","(","s","n","i","p","p","e","t",")",":"," ">> \o Take(OrEmpty(wres[1].description), 120) \o <<".",".",".">>,
                                       <<"D","o","n","e",".">> >>
                            /\ termination' = set_return_code(0)
    /\ pc' = "h_exit"
    /\ UNCHANGED <<entry, environ, installed, calls, pdf_url, temp_path>>
    /\ UNCHANGED imageVars /\ UNCHANGED watcherVars /\ UNCHANGED downloadVars
    /\ UNCHANGED pickerVars /\ UNCHANGED normalizeVars

\* an exception that an agent does not catch (a print to a closed pipe, an
\* interrupt) leaves handle through the finally block at lines 111-118
Handle_AgentException ==
    /\ entry = "handle"
    /\ pc \in {"w_start", "w_pypdf2", "w_pdfplumber", "w_pymupdf", "w_ocr", "w_finish",
               "img_start", "img_replicate", "img_poll", "img_openai", "img_local"}
    /\ termination' = "exception"
    /\ fs' = Finally(fs, temp_path)
    /\ pc' = "h_exit"
    /\ UNCHANGED <<entry, environ, installed, console, calls, pdf_url, temp_path, stages>>
    /\ UNCHANGED imageVars /\ UNCHANGED watcherVars /\ UNCHANGED downloadVars
    /\ UNCHANGED pickerVars /\ UNCHANGED normalizeVars

\* ------------------------------------------------------------------------
\* WatcherAgent._find_description_block, called on its own
\* ------------------------------------------------------------------------

\* length of the longest line the inputs contain
LongLen == 1250

\* a line of LongLen characters: five-letter words
LongLine == [i \in 1..LongLen |-> IF i % 6 = 0 THEN " " ELSE "a"]

\* lines that match the heading pattern of line 250
SectionHeadings == { <<"D","e","s","c","r","i","p","t","i","o","n">>, <<"d","e","s","c","r","i","p","t","i","o","n",":">>, <<"D","E","S","C","R","I","P","T","I","O","N"," ","-">>, <<"D","e","s","c","r","i","p","t","i","o","n"," ",":">> }

\* what precedes the section: nothing, a paragraph, or a heading whose block is empty
SectionPrefixes == { <<>>, << <<"F","i","e","l","d"," ","n","o","t","e","s",","," ","v","o","l","u","m","e"," ","7",".">>, <<>> >>, << <<"D","E","S","C","R","I","P","T","I","O","N">>, <<"N","O","T","E","S">>, <<>> >> }

\* between the heading and the first paragraph: nothing or a blank line
Leads == { <<>>, << <<>> >> }

\* paragraphs as their lines; no line is heading-like
FirstParagraphs ==
    { << <<"A"," ","r","e","d"," ","f","o","x"," ","j","u","m","p","s"," ","o","v","e","r"," ","t","h","e"," ","l","a","z","y"," ","d","o","g",",">>, <<"n","e","a","r"," ","a"," ","r","i","v","e","r",".">> >>,
      << <<"d","e","s","c","r","i","p","t","i","o","n",":">>, <<"o","f"," ","a"," ","f","o","x",".">> >>,
      << LongLine >> }

SecondParagraphs == { << <<"I","t"," ","i","s"," ","d","u","s","k"," ","n","o","w",".">> >>, << <<"t","h","e"," ","e","n","d">>, <<"o","f"," ","i","t"," ","a","l","l">> >> }

\* what follows the section: the end of the text, or a heading-like line of
\* each kind (upper case, capitalised phrase, at most four characters)
Tails ==
    { <<>>,
      << <<"N","O","T","E","S">>, <<"f","i","n"," ","t","e","x","t"," ","h","e","r","e",".">> >>,
      << <<>>, <<"N","e","x","t"," ","S","e","c","t","i","o","n"," ","2">>, <<"m","o","r","e"," ","t","e","x","t"," ","f","o","l","l","o","w","s"," ","h","e","r","e",".">> >>,
      << <<"f","i","n">> >> }

\* texts with a description section of two paragraphs
SectionInputs ==
    [prefix : SectionPrefixes, heading : SectionHeadings, lead : Leads,
     paragraphs : {<<p, q>> : p \in FirstParagraphs, q \in SecondParagraphs}, tail : Tails]

\* paragraphs of 10, 39, 40, 46 and LongLen characters
PlainParagraphs ==
    { << <<"T","o","o"," ","s","h","o","r","t",".">> >>,
      << <<"T","h","e"," ","t","i","d","e"," ","c","a","m","e"," ","i","n"," ","a","t"," ","d","a","w","n",","," ","l","e","f","t"," ","b","y"," ","e","i","g","h","t">> >>,
      << <<"T","h","e"," ","t","i","d","e"," ","c","a","m","e"," ","i","n"," ","a","t"," ","d","a","w","n"," ","a","n","d"," ","l","e","f","t"," ","b","y"," ","t","e","n">> >>,
      << <<"I","t"," ","r","a","i","n","e","d"," ","a","l","l"," ","d","a","y",";"," ","w","e">>, <<"s","t","a","y","e","d"," ","i","n"," ","a","n","d"," ","r","e","a","d"," ","m","a","p","s",".">> >>,
      << LongLine >> }

\* texts without a description section: up to three different paragraphs,
\* alone or after a heading whose block is empty
ParagraphInputs ==
    LET one == {<<p>> : p \in PlainParagraphs}
        two == {<<p, q>> : p \in PlainParagraphs, q \in PlainParagraphs}
        three == {<<p, q, r>> : p \in PlainParagraphs, q \in PlainParagraphs, r \in PlainParagraphs}
        different(ps) == \A i, j \in DOMAIN ps : i # j => ps[i] # ps[j]
    IN  [prefix : {<<>>, << <<"D","e","s","c","r","i","p","t","i","o","n">>, <<"N","O","T","E","S">>, <<>> >>}, heading : {<<>>}, lead : {<<>>},
         paragraphs : {ps \in one \cup two \cup three : different(ps)}, tail : {<<>>}]

PickerInputs == SectionInputs \cup ParagraphInputs

\* the lines of paragraphs that one blank line separates
RECURSIVE ParagraphLines(_)
ParagraphLines(ps) ==
    IF ps = <<>> THEN <<>>
    ELSE IF Len(ps) = 1 THEN ps[1]
    ELSE ps[1] \o << <<>> >> \o ParagraphLines(Tail(ps))

\* the text made of the pieces p
Assemble(p) ==
    Join(p.prefix \o (IF p.heading = <<>> THEN <<>> ELSE <<p.heading>>) \o p.lead
         \o ParagraphLines(p.paragraphs) \o p.tail, <<"\n">>)

\* line 142: description = self._find_description_block(text)
FindDescriptionBlock ==
    /\ pc = "p_start"
    /\ picked' = Some(find_description_block(picker_text))
    /\ pc' = "done"
    /\ UNCHANGED <<entry, environ, installed, fs, console, calls, parts, picker_text>>
    /\ UNCHANGED imageVars /\ UNCHANGED watcherVars /\ UNCHANGED downloadVars /\ UNCHANGED handleVars
    /\ UNCHANGED normalizeVars

\* the characters of the texts given to _normalize_whitespace
NormalizeAlphabet == {" ", "\t", "\r", "\n", "a"}

\* longest text given to _normalize_whitespace
MaxRawLen == 6

\* the texts a backend can read from the pages
RawTexts == UNION {[1..n -> NormalizeAlphabet] : n \in 0..MaxRawLen}

\* lines 166, 176, 190, 221 and then line 140: the backend returns
\* self._normalize_whitespace of what it read, and get_description_from_pdf
\* normalizes the text it was given once more
NormalizeWhitespace ==
    /\ pc = "n_start"
    /\ passes' = Append(passes, normalize_whitespace(IF passes = <<>> THEN raw_text
                                                     ELSE passes[Len(passes)]))
    /\ pc' = IF Len(passes) = 1 THEN "done" ELSE pc
    /\ UNCHANGED <<entry, environ, installed, fs, console, calls, raw_text>>
    /\ UNCHANGED imageVars /\ UNCHANGED watcherVars /\ UNCHANGED downloadVars /\ UNCHANGED handleVars
    /\ UNCHANGED pickerVars

\* ------------------------------------------------------------------------
\* Specification
\* ------------------------------------------------------------------------

LOCAL_PDF == <<"d","o","c",".","p","d","f">>
LOCAL_DIR == <<"d","o","c","s">>

\* pdf_path arguments of a direct call of get_description_from_pdf
PdfPaths == { <<>>, <<" ","\t">>, <<"m","i","s","s","i","n","g",".","p","d","f">>, LOCAL_DIR, <<" ","d","o","c",".","p","d","f"," ">> }

Directory == [exists |-> TRUE, isfile |-> FALSE, data |-> <<>>]

NoFiles == [p \in {IMAGE_OUTPUT_FILE, MANIFEST_FILE, TEMP_FILE, LOCAL_PDF, LOCAL_DIR} |-> Absent]

\* the files before the call: a PDF and a directory in the working directory,
\* and possibly the image of an earlier run
InitialFiles ==
    LET base == [NoFiles EXCEPT ![LOCAL_PDF] = File(<<"%","P","D","F","-","1",".","4"," ","o","b","j">>), ![LOCAL_DIR] = Directory]
    IN  { base, [base EXCEPT ![IMAGE_OUTPUT_FILE] = File(<<"stale-image">>)] }

NoCredentials == [REPLICATE_API_TOKEN |-> <<>>, OPENAI_API_KEY |-> <<>>]

\* no argument of _find_description_block
NoParts == [prefix |-> <<>>, heading |-> <<>>, lead |-> <<>>, paragraphs |-> <<>>, tail |-> <<>>]

\* the state before a call, but for the operation's own arguments
Idle ==
    /\ console = <<>>
    /\ calls = <<>>
    /\ api_errors = <<>>
    /\ polls = 0
    /\ attempted = <<>>
    /\ ires = None
    /\ texts = <<>>
    /\ errors = <<>>
    /\ best_text = <<>>
    /\ used_backend = None
    /\ wres = None
    /\ dres = None
    /\ pdf_url = <<>>
    /\ temp_path = <<>>
    /\ termination = "running"
    /\ stages = <<>>
    /\ passes = <<>>

\* a direct call of generate_image_from_description(description)
InitImage ==
    /\ entry = "image" /\ pc = "img_start"
    /\ environ \in [REPLICATE_API_TOKEN : Credentials, OPENAI_API_KEY : Credentials]
    /\ installed \in {m \in Installations : {"PyPDF2", "pdfplumber", "fitz"} \subseteq m}
    /\ fs \in InitialFiles
    /\ description \in Descriptions
    /\ pdf_path = <<>> /\ url = <<>>
    /\ parts = NoParts /\ picker_text = <<>> /\ picked = None
    /\ raw_text = <<>>
    /\ Idle

\* a direct call of get_description_from_pdf(pdf_path)
InitWatcher ==
    /\ entry = "watcher" /\ pc = "w_start"
    /\ environ = NoCredentials
    /\ installed \in {m \in Installations : "PIL" \in m}
    /\ fs \in {f \in InitialFiles : ~f[IMAGE_OUTPUT_FILE].exists}
    /\ pdf_path \in PdfPaths
    /\ description = <<>> /\ url = <<>>
    /\ parts = NoParts /\ picker_text = <<>> /\ picked = None
    /\ raw_text = <<>>
    /\ Idle

\* a direct call of download_pdf_to_temp(url)
InitDownload ==
    /\ entry = "download" /\ pc = "d_start"
    /\ environ = NoCredentials
    /\ installed = Modules
    /\ fs \in {f \in InitialFiles : ~f[IMAGE_OUTPUT_FILE].exists}
    /\ url \in DownloadUrls
    /\ description = <<>> /\ pdf_path = <<>>
    /\ parts = NoParts /\ picker_text = <<>> /\ picked = None
    /\ raw_text = <<>>
    /\ Idle

\* a run of the management command
InitHandle ==
    /\ entry = "handle" /\ pc = "h_start"
    /\ environ \in [REPLICATE_API_TOKEN : Credentials, OPENAI_API_KEY : Credentials]
    /\ installed \in Installations
    /\ fs \in {f \in InitialFiles : ~f[IMAGE_OUTPUT_FILE].exists}
    /\ description = <<>> /\ pdf_path = <<>> /\ url = <<>>
    /\ parts = NoParts /\ picker_text = <<>> /\ picked = None
    /\ raw_text = <<>>
    /\ Idle

\* a direct call of _find_description_block(text) with a normalized text
InitPicker ==
    /\ entry = "picker" /\ pc = "p_start"
    /\ environ = NoCredentials
    /\ installed = Modules
    /\ fs \in {f \in InitialFiles : ~f[IMAGE_OUTPUT_FILE].exists}
    /\ parts \in {p \in PickerInputs : normalize_whitespace(Assemble(p)) = Assemble(p)}
    /\ picker_text = Assemble(parts)
    /\ picked = None
    /\ raw_text = <<>>
    /\ description = <<>> /\ pdf_path = <<>> /\ url = <<>>
    /\ Idle

\* a backend's normalization of the text it read, followed by the one of
\* get_description_from_pdf
InitNormalize ==
    /\ entry = "normalize" /\ pc = "n_start"
    /\ environ = NoCredentials
    /\ installed = Modules
    /\ fs \in {f \in InitialFiles : ~f[IMAGE_OUTPUT_FILE].exists}
    /\ parts = NoParts /\ picker_text = <<>> /\ picked = None
    /\ raw_text \in RawTexts
    /\ description = <<>> /\ pdf_path = <<>> /\ url = <<>>
    /\ Idle

\* the three public operations, each called directly; what an operation
\* never reads is left at one value
Init == InitImage \/ InitWatcher \/ InitDownload

Next ==
    \/ GenerateImage_Validate
    \/ GenerateImage_Replicate
    \/ GenerateImage_ReplicatePoll
    \/ GenerateImage_OpenAI
    \/ GenerateImage_Fallback
    \/ GetDescription_Validate
    \/ GetDescription_PyPDF2
    \/ GetDescription_Pdfplumber
    \/ GetDescription_PyMuPDF
    \/ GetDescription_OCR
    \/ GetDescription_Finish
    \/ Download_Validate
    \/ Download_Request
    \/ Download_Stream

Spec == Init /\ [][Next]_vars

\* the same calls, where a call to generate_image_from_description that has
\* reached a provider runs on: a poll is answered within its timeout, the
\* sleep between two polls ends, and the later steps are taken in turn
SpecLive ==
    /\ Init /\ [][Next]_vars
    /\ WF_vars(GenerateImage_ReplicatePoll)
    /\ WF_vars(GenerateImage_OpenAI)
    /\ WF_vars(GenerateImage_Fallback)

NextHandle ==
    \/ Next
    \/ Handle_Prompt
    \/ Handle_AfterDownload
    \/ Handle_AfterWatcher
    \/ Handle_AfterImage
    \/ Handle_AgentException

\* the management command from its prompt to its exit
SpecHandle == InitHandle /\ [][NextHandle]_vars

\* _find_description_block on its own
SpecPicker == InitPicker /\ [][FindDescriptionBlock]_vars

\* _normalize_whitespace on its own, applied twice in a row
SpecNormalize == InitNormalize /\ [][NormalizeWhitespace]_vars

\* all four entry points, for properties that speak of every result record
SpecAll == (Init \/ InitHandle) /\ [][NextHandle]_vars

\* ------------------------------------------------------------------------
\* Properties
\* ------------------------------------------------------------------------

StartsWith(s, p) == Len(s) >= Len(p) /\ SubSeq(s, 1, Len(p)) = p

\* s has a character that is not whitespace
NonBlank(s) == \E i \in 1..Len(s) : s[i] \notin Whitespace

Called(p) == \E i \in DOMAIN calls : calls[i].provider = p

Rank(p) == CASE p = "Replicate" -> 1 [] p = "OpenAI" -> 2 [] p = "local" -> 3 [] OTHER -> 0

\* the first words of the details of an image produced by provider p
SuccessPrefix(p) ==
    CASE p = "Replicate" -> <<"G","e","n","e","r","a","t","e","d"," ","v","i","a"," ","R","e","p","l","i","c","a","t","e">>
      [] p = "OpenAI" -> <<"G","e","n","e","r","a","t","e","d"," ","v","i","a"," ","O","p","e","n","A","I">>
      [] OTHER -> <<"R","e","n","d","e","r","e","d"," ","l","o","c","a","l","l","y">>

\* C1: in one call of generate_image_from_description the providers are
\* invoked in the order Replicate, OpenAI, local renderer, each at most once;
\* nothing is invoked after a provider that produced an image, and the call
\* then returns that provider's success.
C1_ProvidersInOrderUntilFirstImage ==
    entry = "image" =>
        /\ \A i, j \in DOMAIN calls :
             i < j => Rank(calls[i].provider) < Rank(calls[j].provider) /\ calls[i].outcome # "ok"
        /\ \A i \in DOMAIN calls :
             calls[i].outcome = "ok" =>
                /\ IsSet(ires) /\ ires[1].success
                /\ StartsWith(ires[1].details[1], SuccessPrefix(calls[i].provider))

\* Replicate failed, OpenAI produced the image, the local renderer never ran
C1_Witness ==
    /\ entry = "image" /\ pc = "done"
    /\ Len(calls) = 2
    /\ calls[1].provider = "Replicate" /\ calls[1].outcome # "ok"
    /\ calls[2] = Attempt("OpenAI", "ok")
    /\ ires[1].success /\ StartsWith(ires[1].details[1], SuccessPrefix("OpenAI"))

TextParsers == {"PyPDF2", "pdfplumber", "PyMuPDF"}

\* C2: in get_description_from_pdf no text parser is invoked after an earlier
\* parser has returned non-empty text, and the text used is that of the first
\* parser that returned non-empty text.
C2_ParsersStopAtFirstText ==
    entry = "watcher" =>
        /\ \A i, j \in DOMAIN calls :
             i < j /\ calls[j].provider \in TextParsers => calls[i].outcome # "ok"
        /\ pc = "w_finish" /\ ~Called("OCR") =>
             \A i \in DOMAIN texts :
                 (NonBlank(texts[i][2]) /\ \A k \in 1..(i - 1) : ~NonBlank(texts[k][2]))
                     => best_text = texts[i][2]

WellFormed(r, payload) ==
    /\ r.success => IsSet(payload) /\ payload[1] # <<>>
    /\ ~r.success => IsSet(r.error) /\ r.error[1] # <<>> /\ payload = None

\* C4: every WatcherResult, ImageResult and DownloadResult returned has a
\* non-empty payload when success is true, and a non-empty error and no payload
\* when success is false.
C4_ResultRecordsWellFormed ==
    /\ IsSet(ires) => WellFormed(ires[1], ires[1].image_path)
    /\ IsSet(wres) => WellFormed(wres[1], wres[1].description)
    /\ IsSet(dres) => WellFormed(dres[1], dres[1].file_path)

\* one run of the command with a record of each kind, of both polarities
C4_Witness ==
    /\ IsSet(dres) /\ dres[1].success
    /\ IsSet(wres) /\ wres[1].success
    /\ IsSet(ires) /\ ~ires[1].success

\* the name by which a details text would mention a provider
ProviderName(p) ==
    CASE p = "PyPDF2" -> <<"P","y","P","D","F","2">>
      [] p = "pdfplumber" -> <<"p","d","f","p","l","u","m","b","e","r">>
      [] p = "PyMuPDF" -> <<"P","y","M","u","P","D","F">>
      [] p = "OCR" -> <<"O","C","R">>
      [] p = "Replicate" -> <<"R","e","p","l","i","c","a","t","e">>
      [] p = "OpenAI" -> <<"O","p","e","n","A","I">>

\* C5: when a fallback chain is exhausted, the details of the failure mention
\* by name every backend or remote provider that was invoked in that call,
\* also a PDF parser that returned empty text without raising.
C5_ExhaustionNamesEveryAttempt ==
    /\ (/\ entry = "watcher" /\ pc = "done"
        /\ wres[1].error = Some(<<"N","o"," ","s","u","i","t","a","b","l","e"," ","d","e","s","c","r","i","p","t","i","o","n"," ","t","e","x","t"," ","f","o","u","n","d"," ","i","n"," ","t","h","e"," ","P","D","F",".">>))
          => \A i \in DOMAIN calls : Contains(wres[1].details[1], ProviderName(calls[i].provider))
    /\ (entry = "image" /\ pc = "done" /\ NonBlank(description) /\ ~ires[1].success)
          => \A i \in DOMAIN calls :
                calls[i].provider # "local" => Contains(ires[1].details[1], ProviderName(calls[i].provider))

C7_ExitStatus ==
    pc = "h_exit" =>
        LET failed == \/ ~NonBlank(pdf_url)
                      \/ IsSet(dres) /\ ~dres[1].success
                      \/ IsSet(wres) /\ ~wres[1].success
                      \/ IsSet(ires) /\ ~ires[1].success
                      \/ stages # <<>> /\ stages[Len(stages)] = "manifest" /\ ~path_exists(fs, MANIFEST_FILE)
            allDone == /\ IsSet(dres) /\ dres[1].success
                       /\ IsSet(wres) /\ wres[1].success
                       /\ IsSet(ires) /\ ires[1].success
                       /\ path_exists(fs, MANIFEST_FILE)
        IN  /\ failed => termination = "SystemExit(1)"
            /\ termination = "return" => allDone

\* the image was generated and the manifest could not be written
C7_Witness ==
    /\ pc = "h_exit" /\ termination = "SystemExit(1)"
    /\ IsSet(ires) /\ ires[1].success
    /\ ~path_exists(fs, MANIFEST_FILE)

\* C8: a remote provider is invoked if and only if its credential is not blank
\* (OpenAI: and Replicate produced no image); a provider with a blank
\* credential appears neither in the attempted list nor in the errors nor in
\* the failure details, and blank credentials alone do not make the call fail.
C8_RemoteAttemptedIffCredential ==
    entry = "image" =>
        LET tokenSet == NonBlank(environ.REPLICATE_API_TOKEN)
            keySet == NonBlank(environ.OPENAI_API_KEY)
            returned == pc = "done" /\ NonBlank(description)
            afterReplicate == pc \in {"img_openai", "img_local"} \/ returned
            afterOpenAI == (pc = "img_local" \/ returned) /\ ~(\E i \in DOMAIN calls : calls[i] = Attempt("Replicate", "ok"))
            Names(s) == \A i \in DOMAIN s :
                           /\ Contains(s[i], <<"R","e","p","l","i","c","a","t","e">>) => tokenSet
                           /\ Contains(s[i], <<"O","p","e","n","A","I">>) => keySet
        IN  /\ afterReplicate => (Called("Replicate") <=> tokenSet)
            /\ afterOpenAI => (Called("OpenAI") <=> keySet)
            /\ ~afterReplicate => ~Called("Replicate")
            /\ Called("OpenAI") => keySet
            /\ Names(attempted) /\ Names(api_errors)
            /\ returned /\ ~ires[1].success => Names(<<ires[1].details[1]>>)
            /\ (/\ returned /\ ~tokenSet /\ ~keySet /\ "PIL" \in installed
                /\ \A i \in DOMAIN calls : calls[i] # Attempt("local", "raised"))
                  => ires[1].success

\* a whitespace-only token: Replicate is skipped, OpenAI is invoked
C8_Witness ==
    /\ entry = "image" /\ pc = "done"
    /\ environ.REPLICATE_API_TOKEN = <<" ">>
    /\ ~Called("Replicate") /\ Called("OpenAI")

\* C9: with an empty or whitespace-only description generate_image_from_description
\* returns a failure, invokes no provider and writes no file; with an empty,
\* whitespace-only or non-existent path get_description_from_pdf returns a
\* failure and invokes no parser and no OCR.
C9_ValidationBeforeProviders ==
    /\ entry = "image" /\ ~NonBlank(description) =>
          /\ calls = <<>>
          /\ fs \in InitialFiles
          /\ pc = "done" => IsSet(ires) /\ ~ires[1].success
    /\ entry = "watcher" /\ (~NonBlank(pdf_path) \/ ~path_exists(fs, Strip(pdf_path))) =>
          /\ calls = <<>>
          /\ pc = "done" => IsSet(wres) /\ ~wres[1].success

\* a whitespace-only description was rejected while credentials were configured
C9_Witness ==
    /\ entry = "image" /\ pc = "done"
    /\ description # <<>> /\ ~NonBlank(description)
    /\ NonBlank(environ.REPLICATE_API_TOKEN)
    /\ IsSet(ires)

\* C10: whenever generate_image_from_description returns success, a file of
\* size greater than zero exists at the returned path, whichever provider
\* produced it.
C10_SuccessMeansNonEmptyFile ==
    (entry = "image" /\ IsSet(ires) /\ ires[1].success) =>
        /\ path_exists(fs, ires[1].image_path[1])
        /\ Len(fs[ires[1].image_path[1]].data) > 0

\* a success of the local renderer, whose file size the code does not test
C10_Witness ==
    /\ entry = "image" /\ IsSet(ires) /\ ires[1].success
    /\ Called("local")

\* the error of a call that found no description
NO_DESCRIPTION == <<"N","o"," ","s","u","i","t","a","b","l","e"," ","d","e","s","c","r","i","p","t","i","o","n"," ","t","e","x","t"," ","f","o","u","n","d"," ","i","n"," ","t","h","e"," ","P","D","F",".">>

\* C11: for an existing PDF file get_description_from_pdf returns success if
\* and only if the best text is non-empty after whitespace normalization: an
\* empty normalized text gives the failure "No suitable description text found
\* in the PDF.", a non-empty one a non-empty description, and a text shorter
\* than 40 characters without a description heading is returned whole; when
\* no backend gave text the call fails, and the command then exits with 1
\* without starting the image generation.
C11_SuccessIffNormalizedTextNonEmpty ==
    /\ [][pc = "w_finish" /\ pc' # "h_exit" =>
            LET text == normalize_whitespace(best_text)
                r == wres'[1]
            IN  /\ r.success <=> text # <<>>
                /\ text = <<>> => r.error = Some(NO_DESCRIPTION) /\ r.description = None
                /\ text # <<>> => r.description # None /\ NonBlank(r.description[1])
                /\ (/\ text # <<>> /\ Len(text) < 40
                    /\ ~Contains(Lower(text), <<"d","e","s","c","r","i","p","t","i","o","n">>)) => r.description = Some(text)]_vars
    /\ [](entry \in {"watcher", "handle"} /\ IsSet(wres) /\ (\A i \in DOMAIN stages : stages[i] # "image")
            /\ (wres[1].success \/ wres[1].error = Some(NO_DESCRIPTION)) =>
                (wres[1].success <=> \E i \in DOMAIN calls : calls[i].outcome = "ok"))
    /\ [](pc = "h_exit" /\ IsSet(wres) /\ ~wres[1].success =>
            /\ termination = "SystemExit(1)"
            /\ ires = None /\ calls \in Seq([provider : {"PyPDF2", "pdfplumber", "PyMuPDF", "OCR"},
                                               outcome : {"raised", "empty"}])
            /\ \A i \in DOMAIN stages : stages[i] # "image")

\* a text of ten characters, without heading and without a paragraph of 40
\* characters, was returned as the description
C11_Witness ==
    /\ entry = "watcher" /\ pc = "done"
    /\ IsSet(wres) /\ wres[1].success
    /\ wres[1].description = Some(<<"H","i","\n","\n","t","h","e","r","e">>)

OCR_BACKEND == <<"O","C","R","(","p","y","t","e","s","s","e","r","a","c","t",")","+","P","y","M","u","P","D","F">>

\* the texts OCR can return
OcrTexts == {extract_text_with_ocr(pages, 3) : pages \in OcrReadings}

\* C12: OCR is attempted exactly when the best text of the parsers is empty or
\* shorter than 40 characters after stripping and both pytesseract and PyMuPDF
\* are available, never when a parser returned 40 characters or more; the OCR
\* text replaces the best text, and OCR becomes the backend, if and only if it
\* is non-empty and strictly longer; otherwise text and backend are kept.
C12_OcrOnlyBelowThresholdAndOnlyIfLonger ==
    [][pc = "w_ocr" /\ pc' = "w_finish" =>
        LET prior == pick_best_text([i \in 1..Len(texts) |-> texts[i][2]])
            backend == IF prior # <<>> THEN FirstNonBlankBackend(texts) ELSE None
            ran == Len(calls') = Len(calls) + 1 /\ calls'[Len(calls')].provider = "OCR"
            outcome == calls'[Len(calls')].outcome
            kept == best_text' = prior /\ used_backend' = backend
        IN  /\ ran <=> /\ Len(Strip(prior)) < 40
                       /\ "pytesseract" \in installed /\ "fitz" \in installed
            /\ (\E i \in DOMAIN texts : Len(Strip(texts[i][2])) >= 40) => ~ran /\ calls' = calls
            /\ ~ran => kept
            /\ ran /\ outcome = "raised" => kept
            /\ ran /\ outcome # "raised" =>
                  \E o \in OcrTexts :
                      /\ outcome = "ok" <=> NonBlank(o)
                      /\ IF o # <<>> /\ Len(Strip(o)) > Len(prior)
                         THEN best_text' = o /\ used_backend' = Some(OCR_BACKEND)
                         ELSE kept]_vars

\* OCR returned a text exactly as long as the parser's nine characters, which
\* were kept with their backend
C12_Witness ==
    /\ entry = "watcher" /\ pc = "w_finish"
    /\ calls # <<>> /\ calls[Len(calls)] = Attempt("OCR", "ok")
    /\ best_text = <<"H","i","\n","\n","t","h","e","r","e">>
    /\ used_backend = Some(<<"p","d","f","p","l","u","m","b","e","r">>)

\* the first line of ls that is not blank is heading-like, or there is none
EndsSection(ls) ==
    \A i \in DOMAIN ls :
        (ls[i] # <<>> /\ \A k \in 1..(i - 1) : ls[k] = <<>>) => looks_like_heading(ls[i])

C14_FirstParagraphOfFortyReturned ==
    (/\ entry = "picker" /\ pc = "done"
     /\ parts.heading = <<>>
     /\ \E i \in DOMAIN parts.paragraphs : Len(Join(parts.paragraphs[i], <<"\n">>)) >= 40)
        => LET ps == [i \in DOMAIN parts.paragraphs |-> Join(parts.paragraphs[i], <<"\n">>)]
               first == CHOOSE i \in DOMAIN ps :
                            Len(ps[i]) >= 40 /\ \A k \in 1..(i - 1) : Len(ps[k]) < 40
           IN  /\ picked = Some(Strip(Take(ps[first], 1200)))
               /\ Len(picked[1]) <= 1200

\* the paragraph of 40 characters after one of 39 and before the longest one
C14_Witness ==
    /\ entry = "picker" /\ pc = "done"
    /\ parts.prefix # <<>>
    /\ parts.paragraphs = << << <<"T","h","e"," ","t","i","d","e"," ","c","a","m","e"," ","i","n"," ","a","t"," ","d","a","w","n",","," ","l","e","f","t"," ","b","y"," ","e","i","g","h","t">> >>,
                             << <<"T","h","e"," ","t","i","d","e"," ","c","a","m","e"," ","i","n"," ","a","t"," ","d","a","w","n"," ","a","n","d"," ","l","e","f","t"," ","b","y"," ","t","e","n">> >>,
                             << LongLine >> >>
    /\ picked = Some(<<"T","h","e"," ","t","i","d","e"," ","c","a","m","e"," ","i","n"," ","a","t"," ","d","a","w","n"," ","a","n","d"," ","l","e","f","t"," ","b","y"," ","t","e","n">>)

\* u, stripped, starts with "http:" or "https:" in any case
HasHttpScheme(u) ==
    \/ StartsWith(Lower(Strip(u)), <<"h","t","t","p",":">>)
    \/ StartsWith(Lower(Strip(u)), <<"h","t","t","p","s",":">>)

\* C15: for an empty URL and for a URL whose scheme is not http or https
\* (ftp, file, no scheme) download_pdf_to_temp returns a failure, and it makes
\* no network request and creates no temp file.
C15_BadUrlRejectedBeforeRequest ==
    (entry = "download" /\ ~HasHttpScheme(url)) =>
        /\ ~Called("requests.get")
        /\ ~path_exists(fs, TEMP_FILE)
        /\ pc # "d_request" /\ pc # "d_stream"
        /\ pc = "done" => IsSet(dres) /\ ~dres[1].success
                          /\ dres[1].error \in {Some(<<"N","o"," ","U","R","L"," ","p","r","o","v","i","d","e","d",".">>), Some(<<"U","n","s","u","p","p","o","r","t","e","d"," ","U","R","L"," ","s","c","h","e","m","e",".">>)}

\* an ftp URL was rejected
C15_Witness ==
    /\ entry = "download" /\ pc = "done"
    /\ url = <<"f","t","p",":","/","/","h","/","a",".","p","d","f">>
    /\ IsSet(dres) /\ dres[1].error = Some(<<"U","n","s","u","p","p","o","r","t","e","d"," ","U","R","L"," ","s","c","h","e","m","e",".">>)
    /\ calls = <<>>

C17_EachCauseHasItsOwnError ==
    (entry = "download" /\ pc = "done") =>
        LET r == dres[1]
        IN  /\ (NonBlank(url) /\ ~HasHttpScheme(url)) => r.error = Some(<<"U","n","s","u","p","p","o","r","t","e","d"," ","U","R","L"," ","s","c","h","e","m","e",".">>)
            /\ Called("requests.get") /\ calls[1].outcome = "empty" =>
                  r.error = Some(<<"H","T","T","P"," ","4","0","4"," ","w","h","i","l","e"," ","d","o","w","n","l","o","a","d","i","n","g",".">>)
            /\ r.details = Some(<<"H","e","a","d","e","r"," ","s","i","g","n","a","t","u","r","e"," ","%","P","D","F","-"," ","n","o","t"," ","f","o","u","n","d",".">>) =>
                  r.error = Some(<<"D","o","w","n","l","o","a","d","e","d"," ","f","i","l","e"," ","i","s"," ","n","o","t"," ","a"," ","v","a","l","i","d"," ","P","D","F",".">>)
            /\ r.details = Some(<<"T","i","m","e","o","u","t">>) => r.error = Some(<<"N","e","t","w","o","r","k"," ","t","i","m","e","o","u","t"," ","d","u","r","i","n","g"," ","d","o","w","n","l","o","a","d",".">>)
            /\ r.details = Some(<<"C","o","n","n","e","c","t","i","o","n","E","r","r","o","r">>) => r.error = Some(<<"N","e","t","w","o","r","k"," ","e","r","r","o","r"," ","d","u","r","i","n","g"," ","d","o","w","n","l","o","a","d",".">>)

STAGES == <<"download", "extract", "image", "manifest">>

\* C18: handle starts its stages in the order download, extraction, image
\* generation, manifest, each at most once, and a stage only after every
\* earlier stage succeeded: no parsing after a failed download, no image
\* generation after a failed extraction, and the manifest is written only after
\* a successful image generation.
C18_StagesInOrderAfterSuccess ==
    entry = "handle" =>
        /\ Len(stages) <= 4 /\ stages = SubSeq(STAGES, 1, Len(stages))
        /\ Len(stages) >= 2 => IsSet(dres) /\ dres[1].success
        /\ Len(stages) >= 3 => IsSet(wres) /\ wres[1].success
        /\ Len(stages) >= 4 => IsSet(ires) /\ ires[1].success
        /\ (IsSet(dres) /\ ~dres[1].success) => wres = None /\ ires = None /\ \A i \in DOMAIN calls : calls[i].provider = "requests.get"
        /\ (IsSet(wres) /\ ~wres[1].success) => ires = None /\ ~Called("Replicate") /\ ~Called("OpenAI") /\ ~Called("local")
        /\ IsSet(wres) => IsSet(dres)
        /\ IsSet(ires) => IsSet(wres)
        /\ path_exists(fs, MANIFEST_FILE) => IsSet(ires) /\ ires[1].success /\ stages = STAGES

\* all four stages ran and the command returned
C18_Witness ==
    /\ entry = "handle" /\ pc = "h_exit" /\ termination = "return"
    /\ stages = STAGES
    /\ path_exists(fs, MANIFEST_FILE)

\* C19: what generate_image_from_description prints shows whether a credential
\* is set and never its value: no printed line contains the value of a
\* non-blank REPLICATE_API_TOKEN or OPENAI_API_KEY.
C19_OutputMasksSecrets ==
    entry = "image" =>
        \A i \in DOMAIN console :
            /\ NonBlank(environ.REPLICATE_API_TOKEN) => ~Contains(console[i], environ.REPLICATE_API_TOKEN)
            /\ NonBlank(environ.OPENAI_API_KEY) => ~Contains(console[i], environ.OPENAI_API_KEY)

\* the image of a finished run was produced by provider p
ProducedBy(p) == \E i \in DOMAIN calls : calls[i] = Attempt(p, "ok")

\* handle printed a line that contains label
Reported(label) == \E i \in DOMAIN console : Contains(console[i], label)

\* C20: on success handle reports the image as LOCAL PLACEHOLDER if and only
\* if the local renderer produced it, and as AI GENERATED if and only if
\* Replicate or OpenAI produced it, whatever the description says.
C20_LabelMatchesProvider ==
    (entry = "handle" /\ pc = "h_exit" /\ termination = "return") =>
        /\ Reported(<<"(","L","O","C","A","L"," ","P","L","A","C","E","H","O","L","D","E","R",")">>) <=> ProducedBy("local")
        /\ Reported(<<"(","A","I"," ","G","E","N","E","R","A","T","E","D",")">>) <=> (ProducedBy("Replicate") \/ ProducedBy("OpenAI"))

EXTRACTED_VIA == <<"E","x","t","r","a","c","t","e","d"," ","v","i","a",":"," ">>

\* C21: when get_description_from_pdf returns success, its details name, after
\* "Extracted via: ", the backend whose text was selected as the best text: a
\* parser whose text is the best text, or OCR when the OCR text replaced it.
C21_DetailsNameSelectedBackend ==
    [][(pc = "w_finish" /\ pc' # "h_exit" /\ wres'[1].success) =>
          LET details == wres'[1].details[1]
              via == SubSeq(details, Len(EXTRACTED_VIA) + 1, Len(details))
          IN  /\ StartsWith(details, EXTRACTED_VIA)
              /\ \/ \E i \in DOMAIN texts : texts[i][1] = via /\ texts[i][2] = best_text
                 \/ /\ via = OCR_BACKEND
                    /\ calls # <<>> /\ calls[Len(calls)] = Attempt("OCR", "ok")
                    /\ best_text \in OcrTexts]_vars

\* C22: a Replicate attempt polls at most MAX_POLLS times; when no poll shows a
\* final status it raises "Replicate prediction timed out", and only then;
\* generate_image_from_description records that as a Replicate failure and goes
\* on to the OpenAI step without a result; every attempt that reached the
\* polling loop leaves it.
C22_ReplicateAttemptTerminates ==
    /\ [](polls <= MAX_POLLS)
    /\ [][pc = "img_poll" =>
            LET timed_out == Append(api_errors, <<"R","e","p","l","i","c","a","t","e"," ","f","a","i","l","e","d",":"," ","R","e","p","l","i","c","a","t","e"," ","p","r","e","d","i","c","t","i","o","n"," ","t","i","m","e","d"," ","o","u","t">>)
            IN  /\ (polls = MAX_POLLS) <=> (api_errors' = timed_out)
                /\ (polls = MAX_POLLS) =>
                      /\ pc' = "img_openai"
                      /\ calls' = Append(calls, Attempt("Replicate", "raised"))
                      /\ ires' = None
                      /\ fs' = fs]_vars
    /\ (pc = "img_poll") ~> (pc \in {"img_openai", "done"})
    /\ (entry = "image" /\ pc = "img_poll") ~> (pc = "done" /\ ires # None)

C22_Witness ==
    /\ entry = "image" /\ pc = "done"
    /\ Len(calls) = 2
    /\ calls[1] = Attempt("Replicate", "raised")
    /\ calls[2] = Attempt("OpenAI", "ok")
    /\ \E i \in DOMAIN console :
          console[i] = <<"[","L","y","r","i","c","i","s","t","A","g","e","n","t","]"," ","R","e","p","l","i","c","a","t","e"," ","e","r","r","o","r",":"," ","R","e","p","l","i","c","a","t","e"," ","p","r","e","d","i","c","t","i","o","n"," ","t","i","m","e","d"," ","o","u","t">>
    /\ ires # None /\ ires[1].success

\* C23: _normalize_whitespace is idempotent on every text over spaces, tabs,
\* carriage returns, newlines and ordinary characters: the second
\* normalization, which get_description_from_pdf applies to a backend's
\* normalized text, returns what the first returned; and what the first
\* returned has no carriage return, no tab, no two spaces in a row, no three
\* newlines in a row and no whitespace at either end.
C23_NormalizeIsIdempotent ==
    /\ [][entry = "normalize" /\ passes # <<>> => passes' = Append(passes, passes[1])]_vars
    /\ [](entry = "normalize" /\ passes # <<>> =>
            LET out == passes[1]
            IN  /\ \A i \in DOMAIN out : out[i] \notin {"\r", "\t"}
                /\ ~Contains(out, <<" ", " ">>)
                /\ ~Contains(out, <<"\n", "\n", "\n">>)
                /\ out # <<>> => out[1] \notin Whitespace /\ out[Len(out)] \notin Whitespace
                /\ normalize_whitespace(out) = out)

C23_Witness ==
    /\ entry = "normalize" /\ pc = "done"
    /\ raw_text = <<"\t", "a", "\r", "\n", "\n", "a">>
    /\ passes = << <<"a", "\n", "\n", "a">>, <<"a", "\n", "\n", "a">> >>

====
